---- MODULE Spec2Model ----
(***************************************************************************)
(* A model of the mbase codec library (deejayy/mbase-cli).                 *)
(*                                                                         *)
(* Bytes are integers 0..255, texts are sequences of Unicode scalar values *)
(* (integers), and a Result<T> is a record: Ok(v) or an error carrying the *)
(* MbaseError kind and, for InvalidCharacter, the character and position.  *)
(* Every codec operation is a pure function and is modelled as an          *)
(* operator; the specifications below drive encode and decode the way the  *)
(* library's callers (and its tests) do.                                   *)
(***************************************************************************)
EXTENDS Integers, Sequences, FiniteSets, TLC

\* one library call: the codec, its input bytes or text, and the results
VARIABLES pc, codec, input, enc, text, strict, lenient, validated

\* the process-wide registry: the codecs given to register_codecs!, the
\* OnceLock's state and value, the number of constructions, the threads
VARIABLES registered, once, registry, builds, thread

\* one run of the command line: its arguments, the result of run, the
\* process exit code
VARIABLES cli, outcome, exit

\* one detection: the requested count and the candidates returned
VARIABLES top_n, detected

codecVars == <<pc, codec, input, enc, text, strict, lenient, validated>>

registryVars == <<registered, once, registry, builds, thread>>

cliVars == <<cli, outcome, exit>>

detectVars == <<top_n, detected>>

\* what a direct call of a codec leaves alone
systemVars == <<registryVars, cliVars, detectVars>>

vars == <<codecVars, registryVars, cliVars, detectVars>>

(***************************************************************************)
(* Results (error.rs).                                                     *)
(***************************************************************************)
Ok(v) == [ok |-> TRUE, val |-> v, kind |-> "Ok", ch |-> -1, pos |-> -1]

Err(k) == [ok |-> FALSE, val |-> <<>>, kind |-> k, ch |-> -1, pos |-> -1]

InvalidCharacter(c, p) ==
    [ok |-> FALSE, val |-> <<>>, kind |-> "InvalidCharacter", ch |-> c, pos |-> p]

InvalidInput == Err("InvalidInput")

InvalidLength == Err("InvalidLength")

InvalidPadding == Err("InvalidPadding")

ChecksumMismatch == Err("ChecksumMismatch")

\* no call has been made yet
None == Err("None")

\* REGISTRY before the first Registry::global(): no thread, nothing built
RegistryIdle ==
    /\ registered = <<>>
    /\ once = "incomplete"
    /\ registry = None
    /\ builds = 0
    /\ thread = <<>>

\* no codec call is under way
CodecIdle ==
    /\ pc = "start"
    /\ codec = ""
    /\ input = <<>>
    /\ enc = None
    /\ text = <<>>
    /\ strict = None
    /\ lenient = None
    /\ validated = None

\* no command line has been run
CliIdle ==
    /\ cli = <<>>
    /\ outcome = None
    /\ exit = -1

\* no detection has been run
DetectIdle ==
    /\ top_n = 0
    /\ detected = None

(***************************************************************************)
(* Sequence and character helpers (Rust std).                              *)
(***************************************************************************)
RECURSIVE SeqsUpTo(_, _)
SeqsUpTo(S, n) ==
    IF n = 0 THEN {<<>>}
    ELSE LET shorter == SeqsUpTo(S, n - 1)
         IN  shorter \cup {Append(s, x) : s \in {t \in shorter : Len(t) = n - 1}, x \in S}

Reverse(s) == [i \in 1..Len(s) |-> s[Len(s) + 1 - i]]

Repeat(x, n) == [i \in 1..n |-> x]

\* first index i (1-based) with s[i] = x, or 0
IndexOf(s, x) ==
    IF \E i \in 1..Len(s) : s[i] = x
    THEN CHOOSE i \in 1..Len(s) : s[i] = x /\ \A j \in 1..(i - 1) : s[j] # x
    ELSE 0

Contains(s, x) == \E i \in 1..Len(s) : s[i] = x

\* number of leading elements equal to x (take_while(..).count())
LeadingCount(s, x) ==
    IF \A i \in 1..Len(s) : s[i] = x THEN Len(s)
    ELSE (CHOOSE i \in 1..Len(s) : s[i] # x /\ \A j \in 1..(i - 1) : s[j] = x) - 1

\* number of trailing elements equal to x
TrailingCount(s, x) == LeadingCount(Reverse(s), x)

\* first index (1-based) whose element is not in the set good, or 0
FirstBad(s, good) ==
    IF \A i \in 1..Len(s) : s[i] \in good THEN 0
    ELSE CHOOSE i \in 1..Len(s) : s[i] \notin good /\ \A j \in 1..(i - 1) : s[j] \in good

\* the set of symbols of an alphabet string
Symbols(alphabet) == {alphabet[i] : i \in 1..Len(alphabet)}

\* char::is_ascii_whitespace: space, tab, line feed, form feed, carriage return
IsAsciiWhitespace(c) == c \in {32, 9, 10, 12, 13}

\* char::is_whitespace (Unicode White_Space)
IsWhitespace(c) ==
    \/ c \in {9, 10, 11, 12, 13, 32, 133, 160, 5760, 8232, 8233, 8239, 8287, 12288}
    \/ (c >= 8192 /\ c <= 8202)

IsAsciiDigit(c) == c >= 48 /\ c <= 57

IsAsciiUpper(c) == c >= 65 /\ c <= 90

IsAsciiLower(c) == c >= 97 /\ c <= 122

\* char::to_ascii_uppercase / to_ascii_lowercase
ToAsciiUpper(c) == IF IsAsciiLower(c) THEN c - 32 ELSE c

ToAsciiLower(c) == IF IsAsciiUpper(c) THEN c + 32 ELSE c

\* str::to_uppercase / to_lowercase on the characters the model draws:
\* ASCII letters fold, U+0141 and U+0142 are a case pair, the Kelvin sign
\* U+212A lower-cases to 'k'; the other modelled characters have no case
ToUpper(s) ==
    [i \in 1..Len(s) |-> IF s[i] = 322 THEN 321 ELSE ToAsciiUpper(s[i])]

ToLower(s) ==
    [i \in 1..Len(s) |-> IF s[i] = 321 THEN 322
                         ELSE IF s[i] = 8490 THEN 107
                         ELSE ToAsciiLower(s[i])]

(***************************************************************************)
(* codec/util.rs                                                           *)
(***************************************************************************)
NotAsciiWhitespace(c) == ~IsAsciiWhitespace(c)

NotWhitespace(c) == ~IsWhitespace(c)

clean_for_mode(s, mode) ==
    IF mode = "Strict" THEN s ELSE SelectSeq(s, NotAsciiWhitespace)

validate_alphabet_with_padding(s, alphabet, allow_padding) ==
    LET good == Symbols(alphabet) \cup (IF allow_padding THEN {61} ELSE {})
        bad == FirstBad(s, good)
    IN  IF bad = 0 THEN Ok(<<>>) ELSE InvalidCharacter(s[bad], bad - 1)

(***************************************************************************)
(* Positional big-integer codecs.                                          *)
(*                                                                         *)
(* base36.rs, base37.rs and base62.rs hold the same two loops with the     *)
(* radix 36, 37 and 62 written in.  The accumulator is a digit vector,     *)
(* least significant digit first: one pass multiplies it by `mul`, adds    *)
(* `carry` and renormalises every digit to `radix`, pushing new digits     *)
(* while the carry is not used up.                                         *)
(***************************************************************************)
RECURSIVE MulAdd(_, _, _, _, _)
MulAdd(acc, i, carry, mul, radix) ==
    IF i <= Len(acc)
    THEN LET c == carry + acc[i] * mul
         IN  <<c % radix>> \o MulAdd(acc, i + 1, c \div radix, mul, radix)
    ELSE IF carry > 0
         THEN <<carry % radix>> \o MulAdd(acc, i, carry \div radix, mul, radix)
         ELSE <<>>

\* input.iter().fold(Vec::new(), ...): the vector after the first k items
RECURSIVE FoldMulAdd(_, _, _, _, _)
FoldMulAdd(items, k, init, mul, radix) ==
    IF k = 0 THEN init
    ELSE MulAdd(FoldMulAdd(items, k - 1, init, mul, radix), 1, items[k], mul, radix)

\* num.extend(repeat_n(0, leading_zeros)) dropped: zero bytes collapse
encode_radix_nozeros(bytes, radix, alphabet) ==
    IF bytes = <<>> THEN <<>>
    ELSE LET num == FoldMulAdd(bytes, Len(bytes), <<>>, 256, radix)
             msf == Reverse(num)
         IN  [i \in 1..Len(msf) |-> alphabet[msf[i] + 1]]

encode_radix(bytes, radix, alphabet) ==
    IF bytes = <<>> THEN <<>>
    ELSE LET num == FoldMulAdd(bytes, Len(bytes), <<>>, 256, radix)
             leading_zeros == LeadingCount(bytes, 0)
             msf == Reverse(num \o Repeat(0, leading_zeros))
         IN  [i \in 1..Len(msf) |-> alphabet[msf[i] + 1]]

\* the bytes of a validated digit string: leading zero symbols, then the value
decode_radix(digits, zero_symbols, radix) ==
    LET result == Reverse(FoldMulAdd(digits, Len(digits), <<>>, radix, 256))
    IN  Repeat(0, zero_symbols) \o result

LOWER_ALPHABET ==
    <<48, 49, 50, 51, 52, 53, 54, 55, 56, 57, 97, 98, 99, 100, 101, 102, 103, 104,
      105, 106, 107, 108, 109, 110, 111, 112, 113, 114, 115, 116, 117, 118, 119,
      120, 121, 122>>

UPPER_ALPHABET ==
    <<48, 49, 50, 51, 52, 53, 54, 55, 56, 57, 65, 66, 67, 68, 69, 70, 71, 72, 73,
      74, 75, 76, 77, 78, 79, 80, 81, 82, 83, 84, 85, 86, 87, 88, 89, 90>>

encode_base36(bytes, alphabet) == encode_radix(bytes, 36, alphabet)

decode_base36(s, mode, is_lowercase) ==
    LET cleaned == clean_for_mode(s, mode)
        normalized == IF mode = "Strict" THEN cleaned
                      ELSE IF is_lowercase THEN ToLower(cleaned) ELSE ToUpper(cleaned)
        alphabet == IF is_lowercase THEN LOWER_ALPHABET ELSE UPPER_ALPHABET
        bad == FirstBad(normalized, Symbols(alphabet))
        digit(c) == IF IsAsciiDigit(c) THEN c - 48
                    ELSE IF IsAsciiLower(c) THEN c - 97 + 10 ELSE c - 65 + 10
        digits == [i \in 1..Len(normalized) |-> digit(normalized[i])]
    IN  IF cleaned = <<>> THEN Ok(<<>>)
        ELSE IF bad # 0 THEN InvalidCharacter(normalized[bad], bad - 1)
        ELSE Ok(decode_radix(digits, LeadingCount(normalized, 48), 36))

BASE37_ALPHABET ==
    <<48, 49, 50, 51, 52, 53, 54, 55, 56, 57, 65, 66, 67, 68, 69, 70, 71, 72, 73,
      74, 75, 76, 77, 78, 79, 80, 81, 82, 83, 84, 85, 86, 87, 88, 89, 90, 32>>

encode_base37(bytes) == encode_radix(bytes, 37, BASE37_ALPHABET)

decode_base37(s, mode) ==
    LET KeepB37(c) == ~IsWhitespace(c) \/ c = 32
        cleaned == IF mode = "Lenient" THEN SelectSeq(s, KeepB37) ELSE s
        normalized == ToUpper(cleaned)
        bad == FirstBad(normalized, Symbols(BASE37_ALPHABET))
        digits == [i \in 1..Len(normalized) |-> IndexOf(BASE37_ALPHABET, normalized[i]) - 1]
    IN  IF cleaned = <<>> THEN Ok(<<>>)
        ELSE IF bad # 0 THEN InvalidCharacter(normalized[bad], bad - 1)
        ELSE Ok(decode_radix(digits, LeadingCount(normalized, 48), 37))

BASE62_ALPHABET ==
    <<48, 49, 50, 51, 52, 53, 54, 55, 56, 57, 65, 66, 67, 68, 69, 70, 71, 72, 73,
      74, 75, 76, 77, 78, 79, 80, 81, 82, 83, 84, 85, 86, 87, 88, 89, 90, 97, 98,
      99, 100, 101, 102, 103, 104, 105, 106, 107, 108, 109, 110, 111, 112, 113,
      114, 115, 116, 117, 118, 119, 120, 121, 122>>

encode_base62(bytes) == encode_radix(bytes, 62, BASE62_ALPHABET)

decode_base62(s, mode) ==
    LET cleaned == clean_for_mode(s, mode)
        bad == FirstBad(cleaned, Symbols(BASE62_ALPHABET))
        digit(c) == IF IsAsciiDigit(c) THEN c - 48
                    ELSE IF IsAsciiUpper(c) THEN c - 65 + 10 ELSE c - 97 + 36
        digits == [i \in 1..Len(cleaned) |-> digit(cleaned[i])]
    IN  IF cleaned = <<>> THEN Ok(<<>>)
        ELSE IF bad # 0 THEN InvalidCharacter(cleaned[bad], bad - 1)
        ELSE Ok(decode_radix(digits, LeadingCount(cleaned, 48), 62))

(***************************************************************************)
(* base92.rs: the encoder divides the byte vector by 92 until it is zero.  *)
(***************************************************************************)
BASE92_ALPHABET ==
    <<33, 35, 36, 37, 38, 39, 40, 41, 42, 43, 44, 45, 46, 47, 48, 49, 50, 51, 52,
      53, 54, 55, 56, 57, 58, 59, 60, 61, 62, 63, 64, 65, 66, 67, 68, 69, 70, 71,
      72, 73, 74, 75, 76, 77, 78, 79, 80, 81, 82, 83, 84, 85, 86, 87, 88, 89, 90,
      91, 93, 94, 95, 96, 97, 98, 99, 100, 101, 102, 103, 104, 105, 106, 107, 108,
      109, 110, 111, 112, 113, 114, 115, 116, 117, 118, 119, 120, 121, 122, 123,
      124, 125, 126>>

\* one division pass over num (most significant byte first) from index i
RECURSIVE Base92Div(_, _, _)
Base92Div(num, i, remainder) ==
    IF i > Len(num) THEN [q |-> <<>>, r |-> remainder]
    ELSE LET temp == remainder * 256 + num[i]
             rest == Base92Div(num, i + 1, temp % 92)
         IN  [q |-> <<temp \div 92>> \o rest.q, r |-> rest.r]

\* while num.first() == Some(&0) && num.len() > 1 { num.remove(0) }
RECURSIVE StripZeros(_)
StripZeros(num) ==
    IF Len(num) > 1 /\ num[1] = 0 THEN StripZeros(Tail(num)) ELSE num

\* the symbols pushed by the while loop, in push order (least significant first)
RECURSIVE Base92Digits(_)
Base92Digits(num) ==
    IF \A i \in 1..Len(num) : num[i] = 0 THEN <<>>
    ELSE LET d == Base92Div(num, 1, 0)
         IN  <<d.r>> \o Base92Digits(StripZeros(d.q))

base92_encode(bytes) ==
    LET leading_zeros == LeadingCount(bytes, 0)
        num == SubSeq(bytes, leading_zeros + 1, Len(bytes))
        result == Reverse(Base92Digits(num))
    IN  IF bytes = <<>> THEN <<>>
        ELSE IF leading_zeros = Len(bytes) THEN Repeat(BASE92_ALPHABET[1], Len(bytes))
        ELSE Repeat(BASE92_ALPHABET[1], leading_zeros)
                \o [i \in 1..Len(result) |-> BASE92_ALPHABET[result[i] + 1]]

base92_decode(s, mode) ==
    LET cleaned == IF mode = "Lenient" THEN SelectSeq(s, NotWhitespace) ELSE s
        leading_zeros == LeadingCount(cleaned, BASE92_ALPHABET[1])
        bad == FirstBad(cleaned, Symbols(BASE92_ALPHABET))
        rest == SubSeq(cleaned, leading_zeros + 1, Len(cleaned))
        digits == [i \in 1..Len(rest) |-> IndexOf(BASE92_ALPHABET, rest[i]) - 1]
        num == Reverse(FoldMulAdd(digits, Len(digits), <<0>>, 92, 256))
    IN  IF cleaned = <<>> THEN Ok(<<>>)
        ELSE IF leading_zeros = Len(cleaned) THEN Ok(Repeat(0, leading_zeros))
        ELSE IF bad # 0 THEN InvalidCharacter(cleaned[bad], bad - 1)
        ELSE Ok(Repeat(0, leading_zeros) \o num)

(***************************************************************************)
(* base58.rs, base58ripple.rs: the bs58 crate does the conversion.  Its    *)
(* encoder is the same radix conversion with one zero symbol per leading   *)
(* zero byte; its decoder reports the first byte that is not ASCII         *)
(* (NonAsciiCharacter) or not in the alphabet (InvalidCharacter, with the  *)
(* byte index, which is the character index while all before it are ASCII).*)
(***************************************************************************)
BTC_ALPHABET ==
    <<49, 50, 51, 52, 53, 54, 55, 56, 57, 65, 66, 67, 68, 69, 70, 71, 72, 74, 75,
      76, 77, 78, 80, 81, 82, 83, 84, 85, 86, 87, 88, 89, 90, 97, 98, 99, 100,
      101, 102, 103, 104, 105, 106, 107, 109, 110, 111, 112, 113, 114, 115, 116,
      117, 118, 119, 120, 121, 122>>

FLICKR_ALPHABET ==
    <<49, 50, 51, 52, 53, 54, 55, 56, 57, 97, 98, 99, 100, 101, 102, 103, 104,
      105, 106, 107, 109, 110, 111, 112, 113, 114, 115, 116, 117, 118, 119, 120,
      121, 122, 65, 66, 67, 68, 69, 70, 71, 72, 74, 75, 76, 77, 78, 80, 81, 82,
      83, 84, 85, 86, 87, 88, 89, 90>>

RIPPLE_ALPHABET ==
    <<114, 112, 115, 104, 110, 97, 102, 51, 57, 119, 66, 85, 68, 78, 69, 71, 72,
      74, 75, 76, 77, 52, 80, 81, 82, 83, 84, 55, 86, 87, 88, 89, 90, 50, 98, 99,
      100, 101, 67, 103, 54, 53, 106, 107, 109, 56, 111, 70, 113, 105, 49, 116,
      117, 118, 65, 120, 121, 122>>

bs58_encode(bytes, alphabet) == encode_radix(bytes, 58, alphabet)

bs58_decode(s, alphabet) ==
    LET bad == FirstBad(s, Symbols(alphabet))
        digits == [i \in 1..Len(s) |-> IndexOf(alphabet, s[i]) - 1]
    IN  IF bad # 0
        THEN IF s[bad] > 127 THEN Err("NonAsciiCharacter")
             ELSE InvalidCharacter(s[bad], bad - 1)
        ELSE Ok(decode_radix(digits, LeadingCount(s, alphabet[1]), 58))

\* Base58Btc::decode, Base58Flickr::decode: only InvalidCharacter is kept
base58_decode(s, mode, alphabet) ==
    LET r == bs58_decode(clean_for_mode(s, mode), alphabet)
    IN  IF r.ok \/ r.kind = "InvalidCharacter" THEN r ELSE InvalidInput

\* Base58Ripple::decode: every bs58 error becomes InvalidInput
base58ripple_decode(s, mode) ==
    LET r == bs58_decode(clean_for_mode(s, mode), RIPPLE_ALPHABET)
    IN  IF r.ok THEN r ELSE InvalidInput

(***************************************************************************)
(* base65536.rs: two bytes per character; the first byte selects a block   *)
(* of 256 code points, the second the offset in it; an odd final byte is   *)
(* written in the padding block.                                           *)
(***************************************************************************)
BLOCK_START ==
    <<
    13312, 13568, 13824, 14080, 14336, 14592, 14848, 15104, 15360, 15616, 15872, 16128,
    16384, 16640, 16896, 17152, 17408, 17664, 17920, 18176, 18432, 18688, 18944, 19200,
    19456, 19968, 20224, 20480, 20736, 20992, 21248, 21504, 21760, 22016, 22272, 22528,
    22784, 23040, 23296, 23552, 23808, 24064, 24320, 24576, 24832, 25088, 25344, 25600,
    25856, 26112, 26368, 26624, 26880, 27136, 27392, 27648, 27904, 28160, 28416, 28672,
    28928, 29184, 29440, 29696, 29952, 30208, 30464, 30720, 30976, 31232, 31488, 31744,
    32000, 32256, 32512, 32768, 33024, 33280, 33536, 33792, 34048, 34304, 34560, 34816,
    35072, 35328, 35584, 35840, 36096, 36352, 36608, 36864, 37120, 37376, 37632, 37888,
    38144, 38400, 38656, 38912, 39168, 39424, 39680, 39936, 40192, 40448, 40704, 40960,
    41216, 41472, 41728, 41984, 42240, 42496, 42752, 43008, 43264, 43520, 43776, 44032,
    44288, 44544, 44800, 45056, 45312, 45568, 45824, 46080, 46336, 46592, 46848, 47104,
    47360, 47616, 47872, 48128, 48384, 48640, 48896, 49152, 49408, 49664, 49920, 50176,
    50432, 50688, 50944, 51200, 51456, 51712, 51968, 52224, 52480, 52736, 52992, 53248,
    53504, 53760, 54016, 54272, 54528, 54784, 55040, 65536, 65792, 66048, 66304, 66560,
    66816, 67072, 67328, 67584, 67840, 68096, 68352, 68608, 68864, 69120, 69376, 69632,
    69888, 70144, 70400, 70656, 70912, 71168, 71424, 71680, 71936, 72192, 72448, 72704,
    72960, 73216, 73472, 73728, 73984, 74240, 74496, 74752, 75008, 77824, 78080, 78336,
    78592, 78848, 82944, 83200, 83456, 92160, 92416, 92672, 92928, 93952, 94208, 100096,
    100352, 100608, 100864, 101120, 101376, 101632, 110592, 110848, 111104, 111360, 113664, 118784,
    119040, 119296, 119552, 119808, 120064, 120320, 120576, 124928, 125184, 125952, 126208, 126464,
    126976, 127232, 127488, 127744, 128000, 128256, 128512, 128768, 129024, 129280, 129536, 129792,
    131072, 173824, 177920, 178176 >>

PADDING_BLOCK_START == 6144

\* the reverse map's entry for a code point: <<hi, lo>>, or <<>> when absent;
\* the padding block is inserted last with hi = 255
build_reverse_map(cp) ==
    IF cp >= PADDING_BLOCK_START /\ cp < PADDING_BLOCK_START + 256
    THEN <<255, cp - PADDING_BLOCK_START>>
    ELSE IF \E hi \in 1..256 : cp >= BLOCK_START[hi] /\ cp < BLOCK_START[hi] + 256
         THEN LET hi == CHOOSE h \in 1..256 :
                            cp >= BLOCK_START[h] /\ cp < BLOCK_START[h] + 256
              IN  <<hi - 1, cp - BLOCK_START[hi]>>
         ELSE <<>>

RECURSIVE base65536_encode(_)
base65536_encode(bytes) ==
    IF bytes = <<>> THEN <<>>
    ELSE IF Len(bytes) = 1 THEN <<PADDING_BLOCK_START + bytes[1]>>
    ELSE <<BLOCK_START[bytes[1] + 1] + bytes[2]>>
             \o base65536_encode(SubSeq(bytes, 3, Len(bytes)))

\* the decode loop from character index pos (1-based) on, result so far acc
RECURSIVE Base65536Loop(_, _, _)
Base65536Loop(chars, pos, acc) ==
    IF pos > Len(chars) THEN Ok(acc)
    ELSE LET e == build_reverse_map(chars[pos])
         IN  IF e = <<>> THEN InvalidCharacter(chars[pos], pos - 1)
             ELSE IF e[1] = 255
                  THEN IF pos # Len(chars) THEN InvalidInput
                       ELSE Base65536Loop(chars, pos + 1, Append(acc, e[2]))
                  ELSE Base65536Loop(chars, pos + 1, acc \o e)

base65536_decode(s, mode) ==
    LET cleaned == IF mode = "Lenient" THEN SelectSeq(s, NotWhitespace) ELSE s
    IN  IF cleaned = <<>> THEN Ok(<<>>) ELSE Base65536Loop(cleaned, 1, <<>>)

(***************************************************************************)
(* quotedprintable.rs: decode.  "=XX" is a byte, "=\r\n" and "=\n" are     *)
(* soft line breaks, a bare CR or LF is kept in Strict mode and dropped in *)
(* Lenient mode, any other character is cast to a byte (c as u8).          *)
(***************************************************************************)
\* hex_value: the digit's value, or -1 for None
hex_value(c) ==
    IF c >= 48 /\ c <= 57 THEN c - 48
    ELSE IF c >= 65 /\ c <= 70 THEN c - 65 + 10
    ELSE IF c >= 97 /\ c <= 102 THEN c - 97 + 10
    ELSE -1

\* the decode loop at character index i (1-based); pos in the code is i - 1
RECURSIVE QuotedPrintableLoop(_, _, _, _)
QuotedPrintableLoop(chars, i, mode, acc) ==
    LET n == Len(chars)
        c == chars[i]
    IN  IF i > n THEN Ok(acc)
        ELSE IF c = 61
        THEN IF i + 2 <= n /\ chars[i + 1] = 13 /\ chars[i + 2] = 10
             THEN QuotedPrintableLoop(chars, i + 3, mode, acc)
             ELSE IF i + 1 <= n /\ chars[i + 1] = 10
             THEN QuotedPrintableLoop(chars, i + 2, mode, acc)
             ELSE IF i + 2 <= n
             THEN LET v1 == hex_value(chars[i + 1])
                      v2 == hex_value(chars[i + 2])
                  IN  IF v1 < 0 THEN InvalidCharacter(chars[i + 1], i)
                      ELSE IF v2 < 0 THEN InvalidCharacter(chars[i + 2], i + 1)
                      ELSE QuotedPrintableLoop(chars, i + 3, mode,
                                               Append(acc, v1 * 16 + v2))
             ELSE IF i + 1 <= n /\ mode = "Lenient"
             THEN LET v == hex_value(chars[i + 1])
                  IN  QuotedPrintableLoop(chars, i + 2, mode,
                                          IF v >= 0 THEN Append(acc, v) ELSE acc)
             ELSE InvalidInput
        ELSE IF c = 13 \/ c = 10
        THEN QuotedPrintableLoop(chars, i + 1, mode,
                                 IF mode = "Strict" THEN Append(acc, c) ELSE acc)
        ELSE QuotedPrintableLoop(chars, i + 1, mode, Append(acc, c % 256))

quotedprintable_decode(s, mode) ==
    IF s = <<>> THEN Ok(<<>>) ELSE QuotedPrintableLoop(s, 1, mode, <<>>)

(***************************************************************************)
(* bech32.rs: the bech32 crate's encode and decode, called with the fixed  *)
(* human-readable part "data".  The checksum is the BCH code of BIP-173,   *)
(* computed over the expanded human-readable part and the 5-bit data; its  *)
(* target residue is 1 for Bech32 and 0x2bc830a3 for Bech32m.              *)
(***************************************************************************)
BECH32_ALPHABET ==
    <<113, 112, 122, 114, 121, 57, 120, 56, 103, 102, 50, 116, 118, 100, 119,
      48, 115, 51, 106, 110, 53, 52, 107, 104, 99, 101, 54, 109, 117, 97, 55,
      108>>

\* "data"
DEFAULT_HRP == <<100, 97, 116, 97>>

\* bitwise exclusive or of two naturals
RECURSIVE XOR(_, _)
XOR(a, b) ==
    IF a = 0 THEN b
    ELSE IF b = 0 THEN a
    ELSE (((a % 2) + (b % 2)) % 2) + 2 * XOR(a \div 2, b \div 2)

BECH32_GEN == <<996825010, 642813549, 513874426, 1027748829, 705979059>>

\* the checksum's target residue (bech32::Checksum::TARGET_RESIDUE)
TargetResidue(is_m) == IF is_m THEN 734539939 ELSE 1

RECURSIVE GenFold(_, _, _)
GenFold(chk, top, i) ==
    IF i > 5 THEN chk
    ELSE GenFold(IF (top \div (2 ^ (i - 1))) % 2 = 1
                 THEN XOR(chk, BECH32_GEN[i]) ELSE chk, top, i + 1)

\* checksum::Engine::input_fe: shift five bits in, fold the generators
\* selected by the five bits shifted out
PolymodStep(chk, v) ==
    IF chk < 33554432 THEN XOR(chk * 32, v)
    ELSE GenFold(XOR((chk % 33554432) * 32, v), chk \div 33554432, 1)

\* the engine's residue after the first k values, starting from 1
RECURSIVE Polymod(_, _)
Polymod(values, k) ==
    IF k = 0 THEN 1 ELSE PolymodStep(Polymod(values, k - 1), values[k])

\* checksum::Engine::input_hrp: high bits, a zero, low bits
HrpExpand(hrp) ==
    [i \in 1..Len(hrp) |-> hrp[i] \div 32] \o <<0>>
        \o [i \in 1..Len(hrp) |-> hrp[i] % 32]

\* bit i (1-based, most significant first) of a sequence of w-bit values
BitAt(vals, w, i) ==
    IF i > w * Len(vals) THEN 0
    ELSE (vals[((i - 1) \div w) + 1] \div (2 ^ (w - 1 - ((i - 1) % w)))) % 2

\* the w_out-bit value made of the bits from .. from + w_out - 1
RECURSIVE Gather(_, _, _, _)
Gather(vals, w_in, w_out, from) ==
    IF w_out = 0 THEN 0
    ELSE 2 * Gather(vals, w_in, w_out - 1, from)
             + BitAt(vals, w_in, from + w_out - 1)

\* the first n groups of w_out bits of a sequence of w_in-bit values
Regroup(vals, w_in, w_out, n) ==
    [j \in 1..n |-> Gather(vals, w_in, w_out, w_out * (j - 1) + 1)]

\* BytesToFes: 8-bit to 5-bit groups, the last group padded with zero bits
BytesToFes(bytes) ==
    Regroup(bytes, 8, 5, (8 * Len(bytes) + 4) \div 5)

\* FesToBytes: 5-bit to 8-bit groups, trailing incomplete bits dropped
FesToBytes(fes) ==
    Regroup(fes, 5, 8, (5 * Len(fes)) \div 8)

\* the six checksum values for a human-readable part and data values
Bech32Checksum(hrp, fes, is_m) ==
    LET values == HrpExpand([i \in 1..Len(hrp) |-> ToAsciiLower(hrp[i])])
                      \o fes \o <<0, 0, 0, 0, 0, 0>>
        pm == XOR(Polymod(values, Len(values)), TargetResidue(is_m))
    IN  [i \in 1..6 |-> (pm \div (32 ^ (6 - i))) % 32]

\* bech32::encode::<V>(hrp, data)
bech32_encode(hrp, data, is_m) ==
    LET fes == BytesToFes(data)
        all == fes \o Bech32Checksum(hrp, fes, is_m)
    IN  [i \in 1..Len(hrp) |-> ToAsciiLower(hrp[i])] \o <<49>>
            \o [i \in 1..Len(all) |-> BECH32_ALPHABET[all[i] + 1]]

\* fn encode_bech32
encode_bech32(hrp, data, is_m) == Ok(bech32_encode(hrp, data, is_m))

\* Fe32::from_char: the symbol's 5-bit value in either case, or -1
Fe32Value(c) == IndexOf(BECH32_ALPHABET, ToAsciiLower(c)) - 1

\* the position of the last separator '1', or 0
LastSeparator(s) ==
    IF \E i \in 1..Len(s) : s[i] = 49
    THEN CHOOSE i \in 1..Len(s) : s[i] = 49 /\ \A j \in (i + 1)..Len(s) : s[j] # 49
    ELSE 0

\* bech32::decode: the text splits at the last '1' into a human-readable
\* part of 1..83 characters in '!'..'~' and a data part of bech32 symbols,
\* not mixing cases; the residue must be that of Bech32m or of Bech32; the
\* six checksum symbols are dropped and the rest regrouped into bytes
bech32_decode(s) ==
    LET sep == LastSeparator(s)
        hrp == SubSeq(s, 1, sep - 1)
        data == SubSeq(s, sep + 1, Len(s))
        fes == [i \in 1..Len(data) |-> Fe32Value(data[i])]
        values == HrpExpand([i \in 1..Len(hrp) |-> ToAsciiLower(hrp[i])]) \o fes
        failed == [ok |-> FALSE, hrp |-> <<>>, data |-> <<>>]
    IN  IF \/ sep = 0
           \/ \E i \in 1..Len(data) : data[i] > 127 \/ fes[i] < 0
           \/ (\E i \in 1..Len(s) : IsAsciiUpper(s[i]))
                  /\ (\E i \in 1..Len(s) : IsAsciiLower(s[i]))
           \/ hrp = <<>> \/ Len(hrp) > 83
           \/ \E i \in 1..Len(hrp) : hrp[i] < 33 \/ hrp[i] > 126
           \/ Len(data) < 6
        THEN failed
        ELSE IF Polymod(values, Len(values)) \notin {TargetResidue(TRUE), TargetResidue(FALSE)}
             THEN failed
             ELSE [ok |-> TRUE, hrp |-> hrp,
                   data |-> FesToBytes(SubSeq(fes, 1, Len(fes) - 6))]

\* decode_bech32_strict without the comparison against the re-encoding
decode_bech32_unreconstructed(s, mode, is_m) ==
    LET cleaned_lower == ToLower(clean_for_mode(s, mode))
        d == bech32_decode(cleaned_lower)
    IN  IF ~d.ok THEN ChecksumMismatch ELSE Ok(d.data)

decode_bech32_strict(s, mode, is_m) ==
    LET cleaned_lower == ToLower(clean_for_mode(s, mode))
        d == bech32_decode(cleaned_lower)
    IN  IF ~d.ok THEN ChecksumMismatch
        ELSE IF ToLower(bech32_encode(d.hrp, d.data, is_m)) = cleaned_lower
             THEN Ok(d.data)
             ELSE ChecksumMismatch

(***************************************************************************)
(* base58.rs, double_sha256: SHA-256 (FIPS 180-4) of the sha2 crate,       *)
(* applied twice.  A 32-bit word is a pair <<high 16 bits, low 16 bits>>.  *)
(* Messages of up to 55 bytes fill one block, which covers every payload   *)
(* the model hashes and the 32-byte digest that is hashed again.           *)
(***************************************************************************)
\* bitwise and of two naturals
RECURSIVE AND(_, _)
AND(a, b) ==
    IF a = 0 \/ b = 0 THEN 0
    ELSE ((a % 2) * (b % 2)) + 2 * AND(a \div 2, b \div 2)

\* the two operations on bytes, tabulated
XorByte == [a \in 0..255 |-> [b \in 0..255 |-> XOR(a, b)]]

AndByte == [a \in 0..255 |-> [b \in 0..255 |-> AND(a, b)]]

Xor16(a, b) ==
    XorByte[a \div 256][b \div 256] * 256 + XorByte[a % 256][b % 256]

And16(a, b) ==
    AndByte[a \div 256][b \div 256] * 256 + AndByte[a % 256][b % 256]

WXor(x, y) == <<Xor16(x[1], y[1]), Xor16(x[2], y[2])>>

WAnd(x, y) == <<And16(x[1], y[1]), And16(x[2], y[2])>>

WNot(x) == <<65535 - x[1], 65535 - x[2]>>

\* wrapping_add
WAdd(x, y) ==
    LET lo == x[2] + y[2]
        hi == x[1] + y[1] + (lo \div 65536)
    IN  <<hi % 65536, lo % 65536>>

\* rotate_right(n), 0 < n < 32
ROTR(x, n) ==
    LET h == IF n >= 16 THEN x[2] ELSE x[1]
        l == IF n >= 16 THEN x[1] ELSE x[2]
        p == 2 ^ (n % 16)
        q == 2 ^ (16 - (n % 16))
    IN  IF n % 16 = 0 THEN <<h, l>>
        ELSE <<(h \div p) + (l % p) * q, (l \div p) + (h % p) * q>>

\* x >> n, 0 < n < 16
SHR(x, n) ==
    <<x[1] \div (2 ^ n), (x[2] \div (2 ^ n)) + (x[1] % (2 ^ n)) * (2 ^ (16 - n))>>

SHA256_K ==
    <<<<17034, 12184>>, <<28983, 17553>>, <<46528, 64463>>, <<59829, 56229>>,
      <<14678, 49755>>, <<23025, 4593>>, <<37439, 33444>>, <<43804, 24277>>,
      <<55303, 43672>>, <<4739, 23297>>, <<9265, 34238>>, <<21772, 32195>>,
      <<29374, 23924>>, <<32990, 45566>>, <<39900, 1703>>, <<49563, 61812>>,
      <<58523, 27073>>, <<61374, 18310>>, <<4033, 40390>>, <<9228, 41420>>,
      <<11753, 11375>>, <<19060, 33962>>, <<23728, 43484>>, <<30457, 35034>>,
      <<38974, 20818>>, <<43057, 50797>>, <<45059, 10184>>, <<48985, 32711>>,
      <<50912, 3059>>, <<54695, 37191>>, <<1738, 25425>>, <<5161, 10599>>,
      <<10167, 2693>>, <<11803, 8504>>, <<19756, 28156>>, <<21304, 3347>>,
      <<25866, 29524>>, <<30314, 2747>>, <<33218, 51502>>, <<37490, 11397>>,
      <<41663, 59553>>, <<43034, 26187>>, <<49739, 35696>>, <<51052, 20899>>,
      <<53650, 59417>>, <<54937, 1572>>, <<62478, 13701>>, <<4202, 41072>>,
      <<6564, 49430>>, <<7735, 27656>>, <<10056, 30540>>, <<13488, 48309>>,
      <<14620, 3251>>, <<20184, 43594>>, <<23452, 51791>>, <<26670, 28659>>,
      <<29839, 33518>>, <<30885, 25455>>, <<33992, 30740>>, <<36039, 520>>,
      <<37054, 65530>>, <<42064, 27883>>, <<48889, 41975>>, <<50801, 30962>>>>

SHA256_H0 ==
    <<<<27145, 58983>>, <<47975, 44677>>, <<15470, 62322>>, <<42319, 62778>>,
      <<20750, 21119>>, <<39685, 26764>>, <<8067, 55723>>, <<23520, 52505>>>>

SmallSigma0(x) == WXor(WXor(ROTR(x, 7), ROTR(x, 18)), SHR(x, 3))

SmallSigma1(x) == WXor(WXor(ROTR(x, 17), ROTR(x, 19)), SHR(x, 10))

BigSigma0(x) == WXor(WXor(ROTR(x, 2), ROTR(x, 13)), ROTR(x, 22))

BigSigma1(x) == WXor(WXor(ROTR(x, 6), ROTR(x, 11)), ROTR(x, 25))

Ch(x, y, z) == WXor(WAnd(x, y), WAnd(WNot(x), z))

Maj(x, y, z) == WXor(WXor(WAnd(x, y), WAnd(x, z)), WAnd(y, z))

\* the padded single block of a message of at most 55 bytes
Sha256Block(msg) ==
    msg \o <<128>> \o Repeat(0, 55 - Len(msg))
        \o <<0, 0, 0, 0, 0, 0, (8 * Len(msg)) \div 256, (8 * Len(msg)) % 256>>

\* the message schedule, extended from the block's 16 words to 64
RECURSIVE Sha256Schedule(_)
Sha256Schedule(w) ==
    IF Len(w) >= 64 THEN w
    ELSE LET t == Len(w) + 1
         IN  Sha256Schedule(Append(w,
                 WAdd(WAdd(SmallSigma1(w[t - 2]), w[t - 7]),
                      WAdd(SmallSigma0(w[t - 15]), w[t - 16]))))

\* the 64 rounds; st is <<round, a, b, c, d, e, f, g, h>>
RECURSIVE Sha256Rounds(_, _)
Sha256Rounds(st, w) ==
    IF st[1] > 64 THEN st
    ELSE LET t == st[1]
             t1 == WAdd(WAdd(WAdd(st[9], BigSigma1(st[6])),
                             WAdd(Ch(st[6], st[7], st[8]), SHA256_K[t])), w[t])
             t2 == WAdd(BigSigma0(st[2]), Maj(st[2], st[3], st[4]))
         IN  Sha256Rounds(<<t + 1, WAdd(t1, t2), st[2], st[3], st[4],
                            WAdd(st[5], t1), st[6], st[7], st[8]>>, w)

\* Sha256::digest
sha256(msg) ==
    LET blk == Sha256Block(msg)
        w == Sha256Schedule([i \in 1..16 |->
                 <<blk[4 * i - 3] * 256 + blk[4 * i - 2],
                   blk[4 * i - 1] * 256 + blk[4 * i]>>])
        st == Sha256Rounds(<<1>> \o SHA256_H0, w)
        out == [i \in 1..8 |-> WAdd(SHA256_H0[i], st[i + 1])]
    IN  [j \in 1..32 |->
            LET word == out[((j - 1) \div 4) + 1]
                half == IF ((j - 1) % 4) < 2 THEN word[1] ELSE word[2]
            IN  IF (j - 1) % 2 = 0 THEN half \div 256 ELSE half % 256]

double_sha256(data) == sha256(sha256(data))

\* Base58Check::encode
base58check_encode(bytes) ==
    bs58_encode(bytes \o SubSeq(double_sha256(bytes), 1, 4), BTC_ALPHABET)

\* Base58Check::decode without the checksum comparison
base58check_decode_unverified(s, mode) ==
    LET r == bs58_decode(clean_for_mode(s, mode), BTC_ALPHABET)
    IN  IF ~r.ok THEN (IF r.kind = "InvalidCharacter" THEN r ELSE InvalidInput)
        ELSE IF Len(r.val) < 4 THEN InvalidInput
        ELSE Ok(SubSeq(r.val, 1, Len(r.val) - 4))

base58check_decode(s, mode) ==
    LET r == bs58_decode(clean_for_mode(s, mode), BTC_ALPHABET)
    IN  IF ~r.ok THEN (IF r.kind = "InvalidCharacter" THEN r ELSE InvalidInput)
        ELSE IF Len(r.val) < 4 THEN InvalidInput
        ELSE LET payload == SubSeq(r.val, 1, Len(r.val) - 4)
                 checksum == SubSeq(r.val, Len(r.val) - 3, Len(r.val))
             IN  IF checksum # SubSeq(double_sha256(payload), 1, 4)
                 THEN ChecksumMismatch
                 ELSE Ok(payload)

(***************************************************************************)
(* base16.rs and base2_8.rs.  Lengths are taken in bytes of the UTF-8      *)
(* text, and the data_encoding and std parsers work on those bytes.        *)
(***************************************************************************)
\* the UTF-8 bytes of one character
Utf8Char(c) ==
    IF c < 128 THEN <<c>>
    ELSE IF c < 2048 THEN <<192 + (c \div 64), 128 + (c % 64)>>
    ELSE IF c < 65536
         THEN <<224 + (c \div 4096), 128 + ((c \div 64) % 64), 128 + (c % 64)>>
         ELSE <<240 + (c \div 262144), 128 + ((c \div 4096) % 64),
                128 + ((c \div 64) % 64), 128 + (c % 64)>>

\* str::as_bytes
RECURSIVE Utf8(_)
Utf8(s) == IF s = <<>> THEN <<>> ELSE Utf8Char(Head(s)) \o Utf8(Tail(s))

HEX_LOWER_ALPHABET ==
    <<48, 49, 50, 51, 52, 53, 54, 55, 56, 57, 97, 98, 99, 100, 101, 102>>

HEX_UPPER_ALPHABET ==
    <<48, 49, 50, 51, 52, 53, 54, 55, 56, 57, 65, 66, 67, 68, 69, 70>>

\* HEXLOWER.encode / HEXUPPER.encode
encode_hex(bytes, alphabet) ==
    [i \in 1..(2 * Len(bytes)) |->
        LET b == bytes[(i + 1) \div 2]
        IN  alphabet[(IF i % 2 = 1 THEN b \div 16 ELSE b % 16) + 1]]

decode_hex(s, mode, alphabet) ==
    LET cleaned == clean_for_mode(s, mode)
        to_decode == IF mode = "Lenient" /\ Len(cleaned) >= 2
                        /\ cleaned[1] = 48 /\ cleaned[2] = 120
                     THEN SubSeq(cleaned, 3, Len(cleaned)) ELSE cleaned
        bytes == Utf8(to_decode)
        accepted == IF mode = "Strict" THEN Symbols(alphabet)
                    ELSE Symbols(HEX_LOWER_ALPHABET) \cup Symbols(HEX_UPPER_ALPHABET)
    IN  IF Len(bytes) % 2 # 0 THEN InvalidLength
        ELSE IF \E i \in 1..Len(bytes) : bytes[i] \notin accepted THEN InvalidInput
        ELSE Ok([i \in 1..(Len(bytes) \div 2) |->
                    hex_value(bytes[2 * i - 1]) * 16 + hex_value(bytes[2 * i])])

\* Base2::encode: format!("{:08b}", b) per byte
base2_encode(bytes) ==
    [i \in 1..(8 * Len(bytes)) |-> 48 + BitAt(bytes, 8, i)]

\* u8::from_str_radix(chunk, 2) on an eight-byte chunk: an optional '+',
\* then binary digits; -1 for an error
Base2Chunk(chunk) ==
    LET digits == IF chunk[1] = 43 THEN Tail(chunk) ELSE chunk
    IN  IF \E i \in 1..Len(digits) : digits[i] \notin {48, 49} THEN -1
        ELSE Gather([i \in 1..Len(digits) |-> digits[i] - 48], 1, Len(digits), 1)

base2_decode(s, mode) ==
    LET bytes == Utf8(clean_for_mode(s, mode))
        vals == [j \in 1..(Len(bytes) \div 8) |->
                    Base2Chunk(SubSeq(bytes, 8 * j - 7, 8 * j))]
    IN  IF Len(bytes) % 8 # 0 THEN InvalidLength
        ELSE IF \E j \in 1..Len(vals) : vals[j] < 0 THEN InvalidInput
        ELSE Ok(vals)

(***************************************************************************)
(* base32human.rs: Crockford base32                                        *)
(***************************************************************************)
CROCKFORD_ALPHABET ==
    <<48, 49, 50, 51, 52, 53, 54, 55, 56, 57, 65, 66, 67, 68, 69, 70, 71, 72,
      74, 75, 77, 78, 80, 81, 82, 83, 84, 86, 87, 88, 89, 90>>

crockford_encode(bytes) ==
    LET fes == Regroup(bytes, 8, 5, (8 * Len(bytes) + 4) \div 5)
    IN  [i \in 1..Len(fes) |-> CROCKFORD_ALPHABET[fes[i] + 1]]

\* the symbol's value, or -1 for None; the match is on the upper-cased
\* character in both modes
crockford_char_value(ch, mode) ==
    LET upper == ToAsciiUpper(ch)
    IN  IF mode = "Lenient" /\ upper = 79 THEN 0
        ELSE IF mode = "Lenient" /\ upper \in {73, 76} THEN 1
        ELSE IndexOf(CROCKFORD_ALPHABET, upper) - 1

crockford_decode(s, mode) ==
    LET KeepCrockford(c) == ~IsAsciiWhitespace(c) /\ c # 45
        cleaned == IF mode = "Strict" THEN s ELSE SelectSeq(s, KeepCrockford)
        vals == [i \in 1..Len(cleaned) |-> crockford_char_value(cleaned[i], mode)]
        bad == FirstBad(vals, 0..31)
        bits == (5 * Len(vals)) % 8
    IN  IF cleaned = <<>> THEN Ok(<<>>)
        ELSE IF bad # 0 THEN InvalidCharacter(cleaned[bad], bad - 1)
        ELSE IF bits > 0 /\ Gather(vals, 5, bits, 5 * Len(vals) - bits + 1) # 0
             THEN InvalidInput
        ELSE Ok(Regroup(vals, 5, 8, (5 * Len(vals)) \div 8))

(***************************************************************************)
(* base64.rs: the four RFC 4648 base64 codecs over the base64 crate's      *)
(* engines (canonical padding required, or no padding accepted).           *)
(***************************************************************************)
STANDARD_ALPHABET ==
    <<65, 66, 67, 68, 69, 70, 71, 72, 73, 74, 75, 76, 77, 78, 79, 80, 81, 82,
      83, 84, 85, 86, 87, 88, 89, 90, 97, 98, 99, 100, 101, 102, 103, 104,
      105, 106, 107, 108, 109, 110, 111, 112, 113, 114, 115, 116, 117, 118,
      119, 120, 121, 122, 48, 49, 50, 51, 52, 53, 54, 55, 56, 57, 43, 47>>

URL_ALPHABET ==
    <<65, 66, 67, 68, 69, 70, 71, 72, 73, 74, 75, 76, 77, 78, 79, 80, 81, 82,
      83, 84, 85, 86, 87, 88, 89, 90, 97, 98, 99, 100, 101, 102, 103, 104,
      105, 106, 107, 108, 109, 110, 111, 112, 113, 114, 115, 116, 117, 118,
      119, 120, 121, 122, 48, 49, 50, 51, 52, 53, 54, 55, 56, 57, 45, 95>>

validate_padding(s, padding_rule) ==
    LET pad_count == TrailingCount(s, 61)
        has_padding == pad_count > 0
    IN  IF padding_rule = "Required" /\ ~has_padding /\ Len(Utf8(s)) % 4 # 0
        THEN InvalidPadding
        ELSE IF padding_rule = "None" /\ has_padding THEN InvalidPadding
        ELSE IF pad_count > 2 THEN InvalidPadding
        ELSE Ok(<<>>)

\* trim_end_matches('=')
TrimPadding(s) == SubSeq(s, 1, Len(s) - TrailingCount(s, 61))

pad_to_multiple(s, multiple) ==
    LET stripped == TrimPadding(s)
        remainder == Len(Utf8(stripped)) % multiple
    IN  IF remainder = 0 THEN stripped
        ELSE stripped \o Repeat(61, multiple - remainder)

\* Engine::encode of BASE64_STANDARD(_NO_PAD) / BASE64_URL_SAFE(_NO_PAD)
base64_encode(bytes, alphabet, pad) ==
    LET groups == Regroup(bytes, 8, 6, (8 * Len(bytes) + 5) \div 6)
        symbols == [i \in 1..Len(groups) |-> alphabet[groups[i] + 1]]
    IN  IF pad THEN symbols \o Repeat(61, (4 - (Len(symbols) % 4)) % 4)
        ELSE symbols

\* Engine::decode: symbols of the alphabet, then exactly the canonical
\* padding (pad) or none at all (~pad); a lone symbol in the last group or
\* non-zero trailing bits are errors; every error is mapped to InvalidInput
base64_decode(s, alphabet, pad) ==
    LET data == TrimPadding(s)
        n == Len(data)
        vals == [i \in 1..n |-> IndexOf(alphabet, data[i]) - 1]
        bits == (6 * n) % 8
    IN  IF \/ \E i \in 1..n : vals[i] < 0
           \/ n % 4 = 1
           \/ Len(s) - n # (IF pad THEN (4 - (n % 4)) % 4 ELSE 0)
           \/ (bits > 0 /\ Gather(vals, 6, bits, 6 * n - bits + 1) # 0)
        THEN InvalidInput
        ELSE Ok(Regroup(vals, 6, 8, (6 * n) \div 8))

\* Base64::validate, Base64Url::validate (padding rule None) and
\* Base64Pad::validate, Base64UrlPad::validate (padding rule Required)
base64_validate(s, mode, alphabet, pad) ==
    LET cleaned == clean_for_mode(s, mode)
        a == validate_alphabet_with_padding(cleaned, alphabet, pad)
    IN  IF ~a.ok THEN a
        ELSE validate_padding(cleaned, IF pad THEN "Required" ELSE "None")

\* Base64::decode, Base64Url::decode
base64_nopad_decode(s, mode, alphabet) ==
    LET cleaned == clean_for_mode(s, mode)
        v == base64_validate(cleaned, mode, alphabet, FALSE)
    IN  IF mode = "Strict"
        THEN IF ~v.ok THEN v ELSE base64_decode(cleaned, alphabet, FALSE)
        ELSE base64_decode(TrimPadding(cleaned), alphabet, FALSE)

\* Base64Pad::decode, Base64UrlPad::decode
base64_pad_decode(s, mode, alphabet) ==
    LET cleaned == clean_for_mode(s, mode)
        v == base64_validate(cleaned, mode, alphabet, TRUE)
    IN  IF mode = "Strict"
        THEN IF ~v.ok THEN v ELSE base64_decode(cleaned, alphabet, TRUE)
        ELSE base64_decode(pad_to_multiple(cleaned, 4), alphabet, TRUE)

(***************************************************************************)
(* unicode_tap.rs and simple_text.rs: the letter ciphers' encoders         *)
(***************************************************************************)
\* String::from_utf8_lossy on the byte values the model draws: an ASCII
\* byte is its character, and 0xFF, which no UTF-8 sequence contains,
\* becomes U+FFFD
Utf8Lossy(bytes) ==
    [i \in 1..Len(bytes) |-> IF bytes[i] < 128 THEN bytes[i] ELSE 65533]

\* [String]::join
RECURSIVE Join(_, _)
Join(strs, sep) ==
    IF strs = <<>> THEN <<>>
    ELSE IF Len(strs) = 1 THEN strs[1]
    ELSE strs[1] \o sep \o Join(Tail(strs), sep)

\* u8::to_string for the numbers 0..99
to_string(n) == IF n < 10 THEN <<48 + n>> ELSE <<48 + (n \div 10), 48 + (n % 10)>>

\* the filter_map closure of TapCode::encode; <<>> stands for None
TapCodeOf(c) ==
    IF IsAsciiUpper(c)
    THEN LET p == IF c = 75 THEN 2 ELSE IF c > 75 THEN c - 65 - 1 ELSE c - 65
         IN  <<48 + (p \div 5) + 1, 48 + (p % 5) + 1>>
    ELSE IF c = 32 THEN <<32, 32>>
    ELSE <<>>

tapcode_encode(bytes) ==
    LET upper == ToUpper(Utf8Lossy(bytes))
        Encodable(c) == TapCodeOf(c) # <<>>
        kept == SelectSeq(upper, Encodable)
        codes == [i \in 1..Len(kept) |-> TapCodeOf(kept[i])]
    IN  IF codes = <<>> THEN InvalidInput ELSE Ok(Join(codes, <<32>>))

a1z26_encode(bytes) ==
    LET upper == ToUpper(Utf8Lossy(bytes))
        Encodable(c) == IsAsciiUpper(c) \/ c = 32
        kept == SelectSeq(upper, Encodable)
        numbers == [i \in 1..Len(kept) |->
                       IF kept[i] = 32 THEN <<48>> ELSE to_string(kept[i] - 65 + 1)]
    IN  IF numbers = <<>> THEN InvalidInput ELSE Ok(Join(numbers, <<45>>))

(***************************************************************************)
(* base85.rs.  A group's u32 value is kept as its base-256 or base-85      *)
(* digit vector; a vector longer than the u32 holds is an overflow of the  *)
(* fold `acc * 85 + v`, which panics in a build with overflow checks and   *)
(* wraps in a build without them.                                          *)
(***************************************************************************)
Z85_ALPHABET ==
    <<48, 49, 50, 51, 52, 53, 54, 55, 56, 57, 97, 98, 99, 100, 101, 102, 103,
      104, 105, 106, 107, 108, 109, 110, 111, 112, 113, 114, 115, 116, 117,
      118, 119, 120, 121, 122, 65, 66, 67, 68, 69, 70, 71, 72, 73, 74, 75,
      76, 77, 78, 79, 80, 81, 82, 83, 84, 85, 86, 87, 88, 89, 90, 46, 45, 58,
      43, 61, 94, 33, 47, 42, 63, 38, 60, 62, 40, 41, 91, 93, 123, 125, 64,
      37, 36, 35>>

\* the five base-85 digits of the big-endian u32 made of four bytes
Base85Digits(chunk) ==
    LET d == FoldMulAdd(chunk, 4, <<>>, 256, 85)
    IN  [i \in 1..5 |-> IF 6 - i <= Len(d) THEN d[6 - i] ELSE 0]

encode_z85(bytes) ==
    IF Len(bytes) % 4 # 0 THEN InvalidLength
    ELSE Ok([i \in 1..(5 * (Len(bytes) \div 4)) |->
               LET j == (i - 1) \div 5
               IN  Z85_ALPHABET[Base85Digits(SubSeq(bytes, 4 * j + 1, 4 * j + 4))
                                    [i - 5 * j] + 1]])

RECURSIVE encode_ascii85(_)
encode_ascii85(bytes) ==
    IF bytes = <<>> THEN <<>>
    ELSE LET n == IF Len(bytes) < 4 THEN Len(bytes) ELSE 4
             chunk == SubSeq(bytes, 1, n)
             chars == Base85Digits(chunk \o Repeat(0, 4 - n))
             rest == encode_ascii85(SubSeq(bytes, n + 1, Len(bytes)))
         IN  IF n = 4 /\ chunk = <<0, 0, 0, 0>> THEN <<122>> \o rest
             ELSE [i \in 1..(n + 1) |-> chars[i] + 33] \o rest

\* the base-256 digits, least significant first, of a five-digit group
Ascii85Value(chars) == FoldMulAdd(chars, 5, <<>>, 85, 256)

\* the group's value does not fit the u32 accumulator
Ascii85Overflows(chars) == Len(Ascii85Value(chars)) > 4

\* [(val >> 24) as u8, (val >> 16) as u8, (val >> 8) as u8, val as u8]
Ascii85Bytes(chars) ==
    LET d == Ascii85Value(chars)
    IN  [i \in 1..4 |-> IF 5 - i <= Len(d) THEN d[5 - i] ELSE 0]

\* the loop over stripped.chars() from character i on, then the final
\* partial group; pos is i - 1 throughout
RECURSIVE Ascii85Loop(_, _, _, _, _)
Ascii85Loop(s, i, chars, result, overflow_checks) ==
    IF i > Len(s)
    THEN IF chars = <<>> THEN Ok(result)
         ELSE LET pad_count == 5 - Len(chars)
                  padded == chars \o Repeat(84, pad_count)
              IN  IF Ascii85Overflows(padded) /\ overflow_checks THEN Err("Panic")
                  ELSE Ok(result \o SubSeq(Ascii85Bytes(padded), 1, 4 - pad_count))
    ELSE IF s[i] = 122
    THEN IF chars # <<>> THEN InvalidInput
         ELSE Ascii85Loop(s, i + 1, chars, result \o <<0, 0, 0, 0>>, overflow_checks)
    ELSE IF s[i] < 33 \/ s[i] > 117 THEN InvalidCharacter(s[i], i - 1)
    ELSE LET group == chars \o <<s[i] - 33>>
         IN  IF Len(group) < 5
             THEN Ascii85Loop(s, i + 1, group, result, overflow_checks)
             ELSE IF Ascii85Overflows(group) /\ overflow_checks THEN Err("Panic")
             ELSE Ascii85Loop(s, i + 1, <<>>, result \o Ascii85Bytes(group),
                              overflow_checks)

decode_ascii85(s, mode, overflow_checks) ==
    LET cleaned == clean_for_mode(s, mode)
        n == Len(cleaned)
        framed == /\ n >= 2
                  /\ SubSeq(cleaned, 1, 2) = <<60, 126>>
                  /\ SubSeq(cleaned, n - 1, n) = <<126, 62>>
    IN  IF framed /\ n = 3 THEN Err("Panic")
        ELSE Ascii85Loop(IF framed THEN SubSeq(cleaned, 3, n - 2) ELSE cleaned,
                         1, <<>>, <<>>, overflow_checks)

(***************************************************************************)
(* rot.rs: ROT13                                                           *)
(***************************************************************************)
\* the rotation of one byte
Rot13Byte(b) ==
    IF IsAsciiUpper(b) THEN ((b - 65 + 13) % 26) + 65
    ELSE IF IsAsciiLower(b) THEN ((b - 97 + 13) % 26) + 97
    ELSE b

\* Rot13::encode: each byte is read as the character of that code point
rot13_encode(bytes) == [i \in 1..Len(bytes) |-> Rot13Byte(bytes[i])]

\* Rot13::decode: `c as u8` keeps the low eight bits of the code point
rot13_decode(s) == [i \in 1..Len(s) |-> Rot13Byte(s[i]) % 256]

(***************************************************************************)
(* codec/base45.rs                                                         *)
(***************************************************************************)
\* "0123456789ABCDEFGHIJKLMNOPQRSTUVWXYZ $%*+-./:"
BASE45_ALPHABET ==
    <<
      48, 49, 50, 51, 52, 53, 54, 55, 56, 57, 65, 66, 67, 68, 69, 70,
      71, 72, 73, 74, 75, 76, 77, 78, 79, 80, 81, 82, 83, 84, 85, 86,
      87, 88, 89, 90, 32, 36, 37, 42, 43, 45, 46, 47, 58
    >>

\* encode_base45: two bytes give three symbols, a last single byte two
RECURSIVE encode_base45(_)
encode_base45(bytes) ==
    IF bytes = <<>> THEN <<>>
    ELSE IF Len(bytes) = 1
    THEN <<BASE45_ALPHABET[(bytes[1] % 45) + 1],
           BASE45_ALPHABET[((bytes[1] \div 45) % 45) + 1]>>
    ELSE LET n == bytes[1] * 256 + bytes[2]
         IN  <<BASE45_ALPHABET[(n % 45) + 1],
               BASE45_ALPHABET[((n \div 45) % 45) + 1],
               BASE45_ALPHABET[(n \div (45 * 45)) + 1]>>
             \o encode_base45(SubSeq(bytes, 3, Len(bytes)))

\* the loop of decode_base45 over vals.chunks(3)
RECURSIVE Base45Chunks(_, _)
Base45Chunks(vals, result) ==
    IF vals = <<>> THEN Ok(result)
    ELSE IF Len(vals) >= 3
    THEN LET n == vals[1] + vals[2] * 45 + vals[3] * 45 * 45
         IN  IF n > 65535 THEN InvalidInput
             ELSE Base45Chunks(SubSeq(vals, 4, Len(vals)),
                               result \o <<n \div 256, n % 256>>)
    ELSE LET n == vals[1] + vals[2] * 45
         IN  IF n > 255 THEN InvalidInput
             ELSE Ok(result \o <<n>>)

\* decode_base45
decode_base45(s, mode) ==
    LET cleaned == clean_for_mode(s, mode)
        normalized == IF mode = "Strict" THEN cleaned ELSE ToUpper(cleaned)
        bad == FirstBad(normalized, Symbols(BASE45_ALPHABET))
        vals == [i \in 1..Len(normalized) |-> IndexOf(BASE45_ALPHABET, normalized[i]) - 1]
    IN  IF cleaned = <<>> THEN Ok(<<>>)
        ELSE IF bad # 0 THEN InvalidCharacter(normalized[bad], bad - 1)
        ELSE IF Len(vals) % 3 = 1 THEN InvalidInput
        ELSE Base45Chunks(vals, <<>>)

(***************************************************************************)
(* codec/base91.rs                                                         *)
(***************************************************************************)
\* a panic of the thread: an index out of bounds, a slice off a character
\* boundary
Panic == Err("Panic")

\* ALPHABET of base91.rs
BASE91_ALPHABET ==
    <<
    65, 66, 67, 68, 69, 70, 71, 72, 73, 74, 75, 76, 77, 78, 79, 80,
    81, 82, 83, 84, 85, 86, 87, 88, 89, 90, 97, 98, 99, 100, 101, 102,
    103, 104, 105, 106, 107, 108, 109, 110, 111, 112, 113, 114, 115,
    116, 117, 118, 119, 120, 121, 122, 48, 49, 50, 51, 52, 53, 54, 55,
    56, 57, 33, 35, 36, 37, 38, 40, 41, 42, 43, 44, 46, 47, 58, 59,
    60, 61, 62, 63, 64, 91, 93, 94, 95, 96, 123, 124, 125, 126, 34
    >>

\* the loop of Base91::encode over the input from byte i on, then the
\* final partial group
RECURSIVE Base91EncodeLoop(_, _, _, _, _)
Base91EncodeLoop(bytes, i, queue, nbits, result) ==
    IF i > Len(bytes)
    THEN IF nbits > 0
         THEN result \o <<BASE91_ALPHABET[(queue % 91) + 1]>>
                     \o (IF nbits > 7 \/ queue > 90
                         THEN <<BASE91_ALPHABET[(queue \div 91) + 1]>> ELSE <<>>)
         ELSE result
    ELSE LET q == queue + bytes[i] * 2^nbits
             n == nbits + 8
             width == IF q % 8192 > 88 THEN 13 ELSE 14
             val == q % 2^width
         IN  IF n > 13
             THEN Base91EncodeLoop(bytes, i + 1, q \div 2^width, n - width,
                      result \o <<BASE91_ALPHABET[(val % 91) + 1],
                                  BASE91_ALPHABET[(val \div 91) + 1]>>)
             ELSE Base91EncodeLoop(bytes, i + 1, q, n, result)

\* Base91::encode
base91_encode(bytes) ==
    IF bytes = <<>> THEN <<>> ELSE Base91EncodeLoop(bytes, 1, 0, 0, <<>>)

\* a decoder that takes 13 bits from every group
Base91WidthFixed(v) == 13

\* the bits Base91::decode takes from a group of value v
Base91Width(v) == IF v % 8192 > 88 THEN 13 ELSE 14

\* the loop of Base91::decode over input.chars(): table[c as usize]
\* indexes a [i8; 256], out of bounds for a character above U+00FF
RECURSIVE Base91Loop(_, _, _, _, _, _)
Base91Loop(s, pos, queue, nbits, val, result) ==
    IF pos > Len(s)
    THEN Ok(IF val # -1 THEN Append(result, (queue + val * 2^nbits) % 256) ELSE result)
    ELSE IF s[pos] >= 256 THEN Panic
    ELSE LET d == IndexOf(BASE91_ALPHABET, s[pos]) - 1
         IN  IF d = -1 THEN InvalidCharacter(s[pos], pos - 1)
             ELSE IF val = -1 THEN Base91Loop(s, pos + 1, queue, nbits, d, result)
             ELSE LET v == val + d * 91
                      q == queue + v * 2^nbits
                      n == nbits + Base91Width(v)
                      k == n \div 8
                      bytes == [i \in 1..k |-> (q \div 256^(i - 1)) % 256]
                  IN  Base91Loop(s, pos + 1, q \div 256^k, n - 8 * k, -1,
                                 result \o bytes)

\* Base91::decode
base91_decode(s, mode) ==
    LET cleaned == IF mode = "Lenient" THEN SelectSeq(s, NotWhitespace) ELSE s
    IN  IF cleaned = <<>> THEN Ok(<<>>)
        ELSE Base91Loop(cleaned, 1, 0, 0, -1, <<>>)

(***************************************************************************)
(* Codec::detect_score.  A DetectCandidate is its codec name and its       *)
(* confidence; the f64 confidence is counted in thousandths.  The reasons  *)
(* and warnings, which no decision reads, are left out.                    *)
(***************************************************************************)
\* util::confidence
MULTIBASE_MATCH == 950

ALPHABET_MATCH == 700

PARTIAL_MATCH == 500

WEAK_MATCH == 300

Max(a, b) == IF a >= b THEN a ELSE b

Min(a, b) == IF a <= b THEN a ELSE b

DetectCandidate(codec_name, confidence) ==
    [codec |-> codec_name, confidence |-> confidence]

\* str::len: the length in bytes
ByteLen(s) == Len(Utf8(s))

\* s.chars().filter(|c| good).count()
CountIn(s, good) == Cardinality({i \in 1..Len(s) : s[i] \in good})

\* Base2::detect_score
base2_detect_score(s) ==
    LET binary_count == CountIn(s, {48, 49})
    IN  IF s = <<>> THEN DetectCandidate("base2", 0)
        ELSE IF binary_count = ByteLen(s) THEN DetectCandidate("base2", ALPHABET_MATCH)
        ELSE IF 10 * binary_count > 9 * ByteLen(s) THEN DetectCandidate("base2", WEAK_MATCH)
        ELSE DetectCandidate("base2", 0)

\* char::is_ascii_hexdigit
HexDigits == (48..57) \cup (65..70) \cup (97..102)

\* detect_hex
detect_hex(s, codec_name, multibase_code) ==
    LET prefixed == IF s[1] = multibase_code THEN MULTIBASE_MATCH ELSE 0
        hex_chars == CountIn(s, HexDigits)
        matched == IF hex_chars = ByteLen(s) THEN Max(prefixed, ALPHABET_MATCH)
                   ELSE IF 10 * hex_chars >= 9 * ByteLen(s) THEN Max(prefixed, WEAK_MATCH)
                   ELSE prefixed
        confidence == IF ByteLen(s) % 2 # 0 THEN matched \div 2 ELSE matched
    IN  IF s = <<>> THEN DetectCandidate(codec_name, 0)
        ELSE DetectCandidate(codec_name, Min(confidence, 1000))

\* detect_base45
detect_base45(s) ==
    LET valid == Cardinality({i \in 1..Len(s) :
                                  ToAsciiUpper(s[i]) \in Symbols(BASE45_ALPHABET)})
        matched == IF valid = ByteLen(s) THEN PARTIAL_MATCH ELSE 0
        confidence == IF \E i \in 1..Len(s) : s[i] \in {32, 37, 36}
                      THEN Max(matched, ALPHABET_MATCH) ELSE matched
    IN  IF s = <<>> THEN DetectCandidate("base45", 0)
        ELSE DetectCandidate("base45", Min(confidence, 1000))

\* detect_base58 (multibase_code -1 for None): on the empty text the ratio
\* is 0/0, not a number, and compares false
detect_base58(s, codec_name, multibase_code, alphabet) ==
    LET prefixed == IF s # <<>> /\ s[1] = multibase_code THEN MULTIBASE_MATCH ELSE 0
        valid == CountIn(s, Symbols(alphabet))
        confidence == IF s = <<>> THEN prefixed
                      ELSE IF valid = ByteLen(s) THEN Max(prefixed, PARTIAL_MATCH)
                      ELSE IF 10 * valid > 9 * ByteLen(s) THEN Max(prefixed, WEAK_MATCH)
                      ELSE prefixed
    IN  DetectCandidate(codec_name, Min(confidence, 1000))

\* detect_base64_common
detect_base64_common(s, codec_name, alphabet, multibase_code, expects_padding) ==
    LET prefixed == IF s[1] = multibase_code THEN MULTIBASE_MATCH ELSE 0
        valid_chars == CountIn(s, Symbols(alphabet) \cup {61})
        matched == IF valid_chars = ByteLen(s) THEN Max(prefixed, ALPHABET_MATCH)
                   ELSE IF 10 * valid_chars >= 9 * ByteLen(s) THEN Max(prefixed, 400)
                   ELSE 0
        has_padding == Contains(s, 61)
        padded == IF expects_padding /\ has_padding THEN matched + 100
                  ELSE IF ~expects_padding /\ ~has_padding THEN matched + 50
                  ELSE matched
        confidence == IF ByteLen(TrimPadding(s)) % 4 = 1 THEN padded \div 2 ELSE padded
    IN  IF s = <<>> THEN DetectCandidate(codec_name, 0)
        ELSE DetectCandidate(codec_name, Min(confidence, 1000))

\* the punctuation Base91::detect_score looks for
BASE91_SPECIAL ==
    <<
    33, 35, 36, 37, 38, 40, 41, 42, 43, 44, 46, 47, 58, 59, 60, 61,
    62, 63, 64, 91, 93, 94, 95, 96, 123, 124, 125, 126, 34
    >>

\* Base91::detect_score panics on table[c as usize] for a character above
\* U+00FF: the filter visits every character of the cleaned text
base91_detect_panics(s) == \E i \in 1..Len(s) : NotWhitespace(s[i]) /\ s[i] >= 256

\* Base91::detect_score when it returns
base91_detect_score(s) ==
    LET clean == SelectSeq(s, NotWhitespace)
        invalid_count == Len(clean) - CountIn(clean, Symbols(BASE91_ALPHABET))
        has_special == \E i \in 1..Len(clean) : clean[i] \in Symbols(BASE91_SPECIAL)
    IN  IF clean = <<>> THEN DetectCandidate("base91", 0)
        ELSE IF invalid_count > 0 THEN DetectCandidate("base91", 0)
        ELSE DetectCandidate("base91", IF has_special THEN ALPHABET_MATCH ELSE PARTIAL_MATCH)

\* Rot13::detect_score
rot13_detect_score(s) ==
    LET alpha_count == CountIn(s, (65..90) \cup (97..122))
    IN  IF s = <<>> THEN DetectCandidate("rot13", 0)
        ELSE IF 2 * alpha_count > ByteLen(s) THEN DetectCandidate("rot13", 200)
        ELSE DetectCandidate("rot13", 0)

\* the codecs whose detect_score is modelled
DetectCodecs ==
    {"base2", "base16lower", "base16upper", "base45", "base58btc", "base64",
     "base64pad", "base91", "rot13"}

\* whether Codec::detect_score of codec c panics on s
DetectPanics(c, s) == c = "base91" /\ base91_detect_panics(s)

\* Codec::detect_score of codec c when it returns
detect_score(c, s) ==
    CASE c = "base2"       -> base2_detect_score(s)
      [] c = "base16lower" -> detect_hex(s, "base16lower", 102)
      [] c = "base16upper" -> detect_hex(s, "base16upper", 70)
      [] c = "base45"      -> detect_base45(s)
      [] c = "base58btc"   -> detect_base58(s, "base58btc", 122, BTC_ALPHABET)
      [] c = "base64"      -> detect_base64_common(s, "base64", STANDARD_ALPHABET, 109, FALSE)
      [] c = "base64pad"   -> detect_base64_common(s, "base64pad", STANDARD_ALPHABET, 77, TRUE)
      [] c = "base91"      -> base91_detect_score(s)
      [] c = "rot13"       -> rot13_detect_score(s)

\* util::validate_alphabet
validate_alphabet(s, alphabet, mode) ==
    LET cleaned == clean_for_mode(s, mode)
        bad == FirstBad(cleaned, Symbols(alphabet))
    IN  IF bad = 0 THEN Ok(<<>>) ELSE InvalidCharacter(cleaned[bad], bad - 1)

(***************************************************************************)
(* codec/registry.rs.  A registered codec is its struct (id), the name and *)
(* aliases of its meta() as texts, and its multibase code (-1 for None),   *)
(* in the order of the register_codecs! invocation.                        *)
(***************************************************************************)
REGISTERED ==
    <<
       \* atbash::Atbash: name "atbash", aliases none, multibase code None
       [id |-> "atbash",
        name |-> <<97, 116, 98, 97, 115, 104>>,
        aliases |-> <<>>,
        multibase_code |-> -1],
       \* base2_8::Base2: name "base2", aliases "binary", "bin", multibase code '0'
       [id |-> "base2",
        name |-> <<98, 97, 115, 101, 50>>,
        aliases |-> <<<<98, 105, 110, 97, 114, 121>>, <<98, 105, 110>>>>,
        multibase_code |-> 48],
       \* base2_8::Base8: name "base8", aliases "octal", "oct", multibase code '7'
       [id |-> "base8",
        name |-> <<98, 97, 115, 101, 56>>,
        aliases |-> <<<<111, 99, 116, 97, 108>>, <<111, 99, 116>>>>,
        multibase_code |-> 55],
       \* base16::Base16Lower: name "base16lower", aliases "hex", "base16", "hexlower", multibase code 'f'
       [id |-> "base16lower",
        name |-> <<98, 97, 115, 101, 49, 54, 108, 111, 119, 101, 114>>,
        aliases |-> <<<<104, 101, 120>>, <<98, 97, 115, 101, 49, 54>>, <<104, 101, 120, 108, 111, 119, 101, 114>>>>,
        multibase_code |-> 102],
       \* base16::Base16Upper: name "base16upper", aliases "hexupper", "HEX", multibase code 'F'
       [id |-> "base16upper",
        name |-> <<98, 97, 115, 101, 49, 54, 117, 112, 112, 101, 114>>,
        aliases |-> <<<<104, 101, 120, 117, 112, 112, 101, 114>>, <<72, 69, 88>>>>,
        multibase_code |-> 70],
       \* base32::Base32Lower: name "base32lower", aliases "base32", "b32", multibase code 'b'
       [id |-> "base32lower",
        name |-> <<98, 97, 115, 101, 51, 50, 108, 111, 119, 101, 114>>,
        aliases |-> <<<<98, 97, 115, 101, 51, 50>>, <<98, 51, 50>>>>,
        multibase_code |-> 98],
       \* base32::Base32Upper: name "base32upper", aliases "B32", multibase code 'B'
       [id |-> "base32upper",
        name |-> <<98, 97, 115, 101, 51, 50, 117, 112, 112, 101, 114>>,
        aliases |-> <<<<66, 51, 50>>>>,
        multibase_code |-> 66],
       \* base32::Base32PadLower: name "base32padlower", aliases "base32pad", "b32pad", multibase code 'c'
       [id |-> "base32padlower",
        name |-> <<98, 97, 115, 101, 51, 50, 112, 97, 100, 108, 111, 119, 101, 114>>,
        aliases |-> <<<<98, 97, 115, 101, 51, 50, 112, 97, 100>>, <<98, 51, 50, 112, 97, 100>>>>,
        multibase_code |-> 99],
       \* base32::Base32PadUpper: name "base32padupper", aliases "B32PAD", multibase code 'C'
       [id |-> "base32padupper",
        name |-> <<98, 97, 115, 101, 51, 50, 112, 97, 100, 117, 112, 112, 101, 114>>,
        aliases |-> <<<<66, 51, 50, 80, 65, 68>>>>,
        multibase_code |-> 67],
       \* base32::Base32HexLower: name "base32hexlower", aliases "base32hex", "b32hex", multibase code 'v'
       [id |-> "base32hexlower",
        name |-> <<98, 97, 115, 101, 51, 50, 104, 101, 120, 108, 111, 119, 101, 114>>,
        aliases |-> <<<<98, 97, 115, 101, 51, 50, 104, 101, 120>>, <<98, 51, 50, 104, 101, 120>>>>,
        multibase_code |-> 118],
       \* base32::Base32HexUpper: name "base32hexupper", aliases "B32HEX", multibase code 'V'
       [id |-> "base32hexupper",
        name |-> <<98, 97, 115, 101, 51, 50, 104, 101, 120, 117, 112, 112, 101, 114>>,
        aliases |-> <<<<66, 51, 50, 72, 69, 88>>>>,
        multibase_code |-> 86],
       \* base32::Base32HexPadLower: name "base32hexpadlower", aliases "base32hexpad", "b32hexpad", multibase code 't'
       [id |-> "base32hexpadlower",
        name |-> <<98, 97, 115, 101, 51, 50, 104, 101, 120, 112, 97, 100, 108, 111, 119, 101, 114>>,
        aliases |-> <<<<98, 97, 115, 101, 51, 50, 104, 101, 120, 112, 97, 100>>, <<98, 51, 50, 104, 101, 120, 112, 97, 100>>>>,
        multibase_code |-> 116],
       \* base32::Base32HexPadUpper: name "base32hexpadupper", aliases "B32HEXPAD", multibase code 'T'
       [id |-> "base32hexpadupper",
        name |-> <<98, 97, 115, 101, 51, 50, 104, 101, 120, 112, 97, 100, 117, 112, 112, 101, 114>>,
        aliases |-> <<<<66, 51, 50, 72, 69, 88, 80, 65, 68>>>>,
        multibase_code |-> 84],
       \* base32human::ZBase32: name "zbase32", aliases "z32", "base32z", multibase code 'h'
       [id |-> "zbase32",
        name |-> <<122, 98, 97, 115, 101, 51, 50>>,
        aliases |-> <<<<122, 51, 50>>, <<98, 97, 115, 101, 51, 50, 122>>>>,
        multibase_code |-> 104],
       \* base32human::Crockford32: name "crockford32", aliases "crockford", "cf32", multibase code None
       [id |-> "crockford32",
        name |-> <<99, 114, 111, 99, 107, 102, 111, 114, 100, 51, 50>>,
        aliases |-> <<<<99, 114, 111, 99, 107, 102, 111, 114, 100>>, <<99, 102, 51, 50>>>>,
        multibase_code |-> -1],
       \* base32wordsafe::Base32WordSafe: name "base32wordsafe", aliases "base32ws", multibase code None
       [id |-> "base32wordsafe",
        name |-> <<98, 97, 115, 101, 51, 50, 119, 111, 114, 100, 115, 97, 102, 101>>,
        aliases |-> <<<<98, 97, 115, 101, 51, 50, 119, 115>>>>,
        multibase_code |-> -1],
       \* base36::Base36Lower: name "base36lower", aliases "base36", "b36", multibase code 'k'
       [id |-> "base36lower",
        name |-> <<98, 97, 115, 101, 51, 54, 108, 111, 119, 101, 114>>,
        aliases |-> <<<<98, 97, 115, 101, 51, 54>>, <<98, 51, 54>>>>,
        multibase_code |-> 107],
       \* base36::Base36Upper: name "base36upper", aliases "B36", multibase code 'K'
       [id |-> "base36upper",
        name |-> <<98, 97, 115, 101, 51, 54, 117, 112, 112, 101, 114>>,
        aliases |-> <<<<66, 51, 54>>>>,
        multibase_code |-> 75],
       \* base37::Base37: name "base37", aliases none, multibase code None
       [id |-> "base37",
        name |-> <<98, 97, 115, 101, 51, 55>>,
        aliases |-> <<>>,
        multibase_code |-> -1],
       \* base45::Base45: name "base45", aliases "b45", multibase code None
       [id |-> "base45",
        name |-> <<98, 97, 115, 101, 52, 53>>,
        aliases |-> <<<<98, 52, 53>>>>,
        multibase_code |-> -1],
       \* base58::Base58Btc: name "base58btc", aliases "base58", "b58", multibase code 'z'
       [id |-> "base58btc",
        name |-> <<98, 97, 115, 101, 53, 56, 98, 116, 99>>,
        aliases |-> <<<<98, 97, 115, 101, 53, 56>>, <<98, 53, 56>>>>,
        multibase_code |-> 122],
       \* base58::Base58Flickr: name "base58flickr", aliases none, multibase code 'Z'
       [id |-> "base58flickr",
        name |-> <<98, 97, 115, 101, 53, 56, 102, 108, 105, 99, 107, 114>>,
        aliases |-> <<>>,
        multibase_code |-> 90],
       \* base58::Base58Check: name "base58check", aliases "b58check", multibase code None
       [id |-> "base58check",
        name |-> <<98, 97, 115, 101, 53, 56, 99, 104, 101, 99, 107>>,
        aliases |-> <<<<98, 53, 56, 99, 104, 101, 99, 107>>>>,
        multibase_code |-> -1],
       \* base58ripple::Base58Ripple: name "base58ripple", aliases "base58xrp", multibase code None
       [id |-> "base58ripple",
        name |-> <<98, 97, 115, 101, 53, 56, 114, 105, 112, 112, 108, 101>>,
        aliases |-> <<<<98, 97, 115, 101, 53, 56, 120, 114, 112>>>>,
        multibase_code |-> -1],
       \* base62::Base62: name "base62", aliases "b62", multibase code None
       [id |-> "base62",
        name |-> <<98, 97, 115, 101, 54, 50>>,
        aliases |-> <<<<98, 54, 50>>>>,
        multibase_code |-> -1],
       \* base64::Base64: name "base64", aliases "b64", "std64", multibase code 'm'
       [id |-> "base64",
        name |-> <<98, 97, 115, 101, 54, 52>>,
        aliases |-> <<<<98, 54, 52>>, <<115, 116, 100, 54, 52>>>>,
        multibase_code |-> 109],
       \* base64::Base64Pad: name "base64pad", aliases "b64pad", multibase code 'M'
       [id |-> "base64pad",
        name |-> <<98, 97, 115, 101, 54, 52, 112, 97, 100>>,
        aliases |-> <<<<98, 54, 52, 112, 97, 100>>>>,
        multibase_code |-> 77],
       \* base64::Base64Url: name "base64url", aliases "b64url", "url64", multibase code 'u'
       [id |-> "base64url",
        name |-> <<98, 97, 115, 101, 54, 52, 117, 114, 108>>,
        aliases |-> <<<<98, 54, 52, 117, 114, 108>>, <<117, 114, 108, 54, 52>>>>,
        multibase_code |-> 117],
       \* base64::Base64UrlPad: name "base64urlpad", aliases "b64urlpad", multibase code 'U'
       [id |-> "base64urlpad",
        name |-> <<98, 97, 115, 101, 54, 52, 117, 114, 108, 112, 97, 100>>,
        aliases |-> <<<<98, 54, 52, 117, 114, 108, 112, 97, 100>>>>,
        multibase_code |-> 85],
       \* base65536::Base65536: name "base65536", aliases "b65536", multibase code None
       [id |-> "base65536",
        name |-> <<98, 97, 115, 101, 54, 53, 53, 51, 54>>,
        aliases |-> <<<<98, 54, 53, 53, 51, 54>>>>,
        multibase_code |-> -1],
       \* base85::Ascii85: name "ascii85", aliases "base85", multibase code None
       [id |-> "ascii85",
        name |-> <<97, 115, 99, 105, 105, 56, 53>>,
        aliases |-> <<<<98, 97, 115, 101, 56, 53>>>>,
        multibase_code |-> -1],
       \* base85::Z85: name "z85", aliases none, multibase code None
       [id |-> "z85",
        name |-> <<122, 56, 53>>,
        aliases |-> <<>>,
        multibase_code |-> -1],
       \* base85chunked::Base85Chunked: name "base85chunked", aliases none, multibase code None
       [id |-> "base85chunked",
        name |-> <<98, 97, 115, 101, 56, 53, 99, 104, 117, 110, 107, 101, 100>>,
        aliases |-> <<>>,
        multibase_code |-> -1],
       \* base85rfc1924::Base85Rfc1924: name "base85rfc1924", aliases "rfc1924", multibase code None
       [id |-> "base85rfc1924",
        name |-> <<98, 97, 115, 101, 56, 53, 114, 102, 99, 49, 57, 50, 52>>,
        aliases |-> <<<<114, 102, 99, 49, 57, 50, 52>>>>,
        multibase_code |-> -1],
       \* base91::Base91: name "base91", aliases "b91", multibase code None
       [id |-> "base91",
        name |-> <<98, 97, 115, 101, 57, 49>>,
        aliases |-> <<<<98, 57, 49>>>>,
        multibase_code |-> -1],
       \* base92::Base92: name "base92", aliases none, multibase code None
       [id |-> "base92",
        name |-> <<98, 97, 115, 101, 57, 50>>,
        aliases |-> <<>>,
        multibase_code |-> -1],
       \* baudot::Baudot: name "baudot", aliases "ita2", "baudot-ita2", multibase code None
       [id |-> "baudot",
        name |-> <<98, 97, 117, 100, 111, 116>>,
        aliases |-> <<<<105, 116, 97, 50>>, <<98, 97, 117, 100, 111, 116, 45, 105, 116, 97, 50>>>>,
        multibase_code |-> -1],
       \* bech32::Bech32Codec: name "bech32", aliases none, multibase code None
       [id |-> "bech32",
        name |-> <<98, 101, 99, 104, 51, 50>>,
        aliases |-> <<>>,
        multibase_code |-> -1],
       \* bech32::Bech32mCodec: name "bech32m", aliases none, multibase code None
       [id |-> "bech32m",
        name |-> <<98, 101, 99, 104, 51, 50, 109>>,
        aliases |-> <<>>,
        multibase_code |-> -1],
       \* braille::Braille: name "braille", aliases "braille-ascii", multibase code None
       [id |-> "braille",
        name |-> <<98, 114, 97, 105, 108, 108, 101>>,
        aliases |-> <<<<98, 114, 97, 105, 108, 108, 101, 45, 97, 115, 99, 105, 105>>>>,
        multibase_code |-> -1],
       \* bubblebabble::BubbleBabble: name "bubblebabble", aliases "bubble", "babble", multibase code None
       [id |-> "bubblebabble",
        name |-> <<98, 117, 98, 98, 108, 101, 98, 97, 98, 98, 108, 101>>,
        aliases |-> <<<<98, 117, 98, 98, 108, 101>>, <<98, 97, 98, 98, 108, 101>>>>,
        multibase_code |-> -1],
       \* ipv6::Ipv6: name "ipv6", aliases "ipv6-rfc1924", multibase code None
       [id |-> "ipv6",
        name |-> <<105, 112, 118, 54>>,
        aliases |-> <<<<105, 112, 118, 54, 45, 114, 102, 99, 49, 57, 50, 52>>>>,
        multibase_code |-> -1],
       \* morse::Morse: name "morse", aliases "morsecode", multibase code None
       [id |-> "morse",
        name |-> <<109, 111, 114, 115, 101>>,
        aliases |-> <<<<109, 111, 114, 115, 101, 99, 111, 100, 101>>>>,
        multibase_code |-> -1],
       \* proquint::Proquint: name "proquint", aliases "pq", "proq", multibase code None
       [id |-> "proquint",
        name |-> <<112, 114, 111, 113, 117, 105, 110, 116>>,
        aliases |-> <<<<112, 113>>, <<112, 114, 111, 113>>>>,
        multibase_code |-> -1],
       \* punycode::Punycode: name "punycode", aliases "pcode", multibase code None
       [id |-> "punycode",
        name |-> <<112, 117, 110, 121, 99, 111, 100, 101>>,
        aliases |-> <<<<112, 99, 111, 100, 101>>>>,
        multibase_code |-> -1],
       \* quotedprintable::QuotedPrintable: name "quoted-printable", aliases "qp", multibase code None
       [id |-> "quoted-printable",
        name |-> <<113, 117, 111, 116, 101, 100, 45, 112, 114, 105, 110, 116, 97, 98, 108, 101>>,
        aliases |-> <<<<113, 112>>>>,
        multibase_code |-> -1],
       \* rot::Rot13: name "rot13", aliases "rot-13", multibase code None
       [id |-> "rot13",
        name |-> <<114, 111, 116, 49, 51>>,
        aliases |-> <<<<114, 111, 116, 45, 49, 51>>>>,
        multibase_code |-> -1],
       \* rot::Rot47: name "rot47", aliases "rot-47", multibase code None
       [id |-> "rot47",
        name |-> <<114, 111, 116, 52, 55>>,
        aliases |-> <<<<114, 111, 116, 45, 52, 55>>>>,
        multibase_code |-> -1],
       \* simple_text::A1Z26: name "a1z26", aliases "letternum", "alphanumeric", multibase code None
       [id |-> "a1z26",
        name |-> <<97, 49, 122, 50, 54>>,
        aliases |-> <<<<108, 101, 116, 116, 101, 114, 110, 117, 109>>, <<97, 108, 112, 104, 97, 110, 117, 109, 101, 114, 105, 99>>>>,
        multibase_code |-> -1],
       \* simple_text::Rot18: name "rot18", aliases "rot-18", multibase code None
       [id |-> "rot18",
        name |-> <<114, 111, 116, 49, 56>>,
        aliases |-> <<<<114, 111, 116, 45, 49, 56>>>>,
        multibase_code |-> -1],
       \* unicode_tap::UnicodeCodepoints: name "unicode", aliases "codepoints", "u+", multibase code None
       [id |-> "unicode",
        name |-> <<117, 110, 105, 99, 111, 100, 101>>,
        aliases |-> <<<<99, 111, 100, 101, 112, 111, 105, 110, 116, 115>>, <<117, 43>>>>,
        multibase_code |-> -1],
       \* unicode_tap::TapCode: name "tapcode", aliases "tap", "knock", multibase code None
       [id |-> "tapcode",
        name |-> <<116, 97, 112, 99, 111, 100, 101>>,
        aliases |-> <<<<116, 97, 112>>, <<107, 110, 111, 99, 107>>>>,
        multibase_code |-> -1],
       \* uuencode::Uuencode: name "uuencode", aliases "uu", multibase code None
       [id |-> "uuencode",
        name |-> <<117, 117, 101, 110, 99, 111, 100, 101>>,
        aliases |-> <<<<117, 117>>>>,
        multibase_code |-> -1],
       \* urlencoding::UrlEncoding: name "urlencoding", aliases "url", "percent", "percentencoding", multibase code None
       [id |-> "urlencoding",
        name |-> <<117, 114, 108, 101, 110, 99, 111, 100, 105, 110, 103>>,
        aliases |-> <<<<117, 114, 108>>, <<112, 101, 114, 99, 101, 110, 116>>, <<112, 101, 114, 99, 101, 110, 116, 101, 110, 99, 111, 100, 105, 110, 103>>>>,
        multibase_code |-> -1]
    >>

\* the keys a codec is inserted under: codec.name(), then meta().aliases
KeysOf(c) == <<c.name>> \o c.aliases

\* the set of elements of a sequence
Range(s) == {s[i] : i \in 1..Len(s)}

\* name_map after the insert loop: a later insert of a key replaces the
\* earlier one, so a key maps to the last codec inserted under it
BuildNameMap(codecs) ==
    LET keys == UNION {Range(KeysOf(codecs[i])) : i \in 1..Len(codecs)}
        Last(k) == CHOOSE i \in 1..Len(codecs) :
                       /\ k \in Range(KeysOf(codecs[i]))
                       /\ \A j \in (i + 1)..Len(codecs) : k \notin Range(KeysOf(codecs[j]))
    IN  [k \in keys |-> Last(k)]

\* multibase_codes.insert(code, name) returned Some(existing) for a codec
DuplicateMultibase(codecs) ==
    \E i \in 1..Len(codecs) : \E j \in (i + 1)..Len(codecs) :
        /\ codecs[i].multibase_code # -1
        /\ codecs[i].multibase_code = codecs[j].multibase_code

\* duplicate check left out
build_registry_unchecked(codecs) ==
    [ok |-> TRUE, codecs |-> codecs, name_map |-> BuildNameMap(codecs)]

\* build_registry: the Registry, or the panic of the duplicate check
build_registry(codecs) ==
    IF DuplicateMultibase(codecs)
    THEN [ok |-> FALSE, codecs |-> <<>>, name_map |-> <<>>]
    ELSE [ok |-> TRUE, codecs |-> codecs, name_map |-> BuildNameMap(codecs)]

\* Registry::get: the index of the codec found, 0 for UnsupportedCodec
registry_get(self, name) ==
    LET name_lower == ToLower(name)
    IN  IF name_lower \in DOMAIN self.name_map THEN self.name_map[name_lower]
        ELSE IF name \in DOMAIN self.name_map THEN self.name_map[name]
        ELSE 0

\* Registry::list
registry_list(self) == self.codecs

\* Registry::multibase_map: collect() keeps the last pair of a code
multibase_map(self) ==
    LET coded == {i \in 1..Len(self.codecs) : self.codecs[i].multibase_code # -1}
        codes == {self.codecs[i].multibase_code : i \in coded}
        Last(code) == CHOOSE i \in coded :
                          /\ self.codecs[i].multibase_code = code
                          /\ \A j \in coded : self.codecs[j].multibase_code = code => j <= i
    IN  [code \in codes |-> self.codecs[Last(code)].name]

(***************************************************************************)
(* bubblebabble.rs.  The encoder's and the decoder's loop return, next to  *)
(* their result, the value `checksum` had at the start of every tuple.     *)
(***************************************************************************)
\* "aeiouy"
VOWELS == <<97, 101, 105, 111, 117, 121>>

\* "bcdfghklmnprstvzx"
CONSONANTS ==
    <<98, 99, 100, 102, 103, 104, 107, 108, 109, 110, 112, 114, 115, 116, 118, 122, 120>>

\* bitwise or of two naturals
OR(a, b) == a + b - AND(a, b)

\* vowel_index / consonant_index: the position of `c as u8` after
\* to_ascii_lowercase, or -1
vowel_index(c) == IndexOf(VOWELS, ToAsciiLower(c) % 256) - 1

consonant_index(c) == IndexOf(CONSONANTS, ToAsciiLower(c) % 256) - 1

\* ((checksum * 5) + (byte1 * 7) + byte2) % 36
next_checksum(checksum, byte1, byte2) == (checksum * 5 + byte1 * 7 + byte2) % 36

\* the first three symbols of a tuple
BubbleHead(byte, checksum) ==
    <<VOWELS[((((byte \div 64) % 4) + checksum) % 6) + 1],
      CONSONANTS[((byte \div 4) % 16) + 1],
      VOWELS[(((byte % 4) + (checksum \div 6)) % 6) + 1]>>

\* the while loop of BubbleBabble::encode from byte i on (counted from 1),
\* then the closing vowel and 'x'
RECURSIVE BubbleEncodeLoop(_, _, _, _, _)
BubbleEncodeLoop(bytes, i, checksum, result, checksums) ==
    LET dash == IF i > 1 THEN <<45>> ELSE <<>>
    IN  IF i > Len(bytes)
        THEN [text |-> result \o (IF bytes # <<>> THEN <<45>> ELSE <<>>)
                              \o <<VOWELS[(checksum % 6) + 1], 120>>,
              checksums |-> checksums]
        ELSE IF i + 1 <= Len(bytes)
        THEN BubbleEncodeLoop(bytes, i + 2,
                 next_checksum(checksum, bytes[i], bytes[i + 1]),
                 result \o dash \o BubbleHead(bytes[i], checksum)
                        \o <<CONSONANTS[(bytes[i + 1] \div 16) + 1],
                             CONSONANTS[(bytes[i + 1] % 16) + 1]>>,
                 Append(checksums, checksum))
        ELSE BubbleEncodeLoop(bytes, i + 1, checksum,
                 result \o dash \o BubbleHead(bytes[i], checksum),
                 Append(checksums, checksum))

\* BubbleBabble::encode
bubblebabble_encode(bytes) == BubbleEncodeLoop(bytes, 1, 1, <<120>>, <<>>).text

\* str::split
RECURSIVE Split(_, _)
Split(s, sep) ==
    IF \A i \in 1..Len(s) : s[i] # sep THEN <<s>>
    ELSE LET k == CHOOSE i \in 1..Len(s) : s[i] = sep /\ \A j \in 1..(i - 1) : s[j] # sep
         IN  <<SubSeq(s, 1, k - 1)>> \o Split(SubSeq(s, k + 1, Len(s)), sep)

\* the position in a tuple of the first symbol that is not of its class
\* (vowel, consonant, vowel, consonant, consonant), 0 if there is none
BubbleBad(chars) ==
    LET bad == {k \in 1..Len(chars) :
                   IF k \in {1, 3} THEN vowel_index(chars[k]) = -1
                   ELSE consonant_index(chars[k]) = -1}
    IN  IF bad = {} THEN 0 ELSE CHOOSE k \in bad : \A j \in bad : k <= j

\* (high_bits | (c1 << 2) | ((v2 + 36 - checksum / 6) % 6)) as u8
BubbleByte(chars, checksum) ==
    OR(OR(((vowel_index(chars[1]) + 36 - checksum) % 6) * 64,
          consonant_index(chars[2]) * 4),
       (vowel_index(chars[3]) + 36 - (checksum \div 6)) % 6) % 256

\* a decoder that replays the checksum without the weights
replayed_checksum_unweighted(checksum, byte1, byte2) ==
    (checksum + byte1 + byte2) % 36

\* the checksum BubbleBabble::decode carries to the next tuple
replayed_checksum(checksum, byte1, byte2) ==
    (checksum * 5 + byte1 * 7 + byte2) % 36

\* the loop of BubbleBabble::decode over the tuples from index idx on
RECURSIVE BubbleDecodeLoop(_, _, _, _, _)
BubbleDecodeLoop(tuples, idx, checksum, result, checksums) ==
    IF idx >= Len(tuples) THEN [res |-> Ok(result), checksums |-> checksums]
    ELSE LET chars == tuples[idx + 1]
             bad == BubbleBad(chars)
         IN  IF Len(chars) = 1
             THEN BubbleDecodeLoop(tuples, idx + 1, checksum, result, checksums)
             ELSE IF Len(chars) \notin {3, 5}
             THEN [res |-> InvalidInput, checksums |-> checksums]
             ELSE IF bad # 0
             THEN [res |-> InvalidCharacter(chars[bad], idx * 6 + bad - 1),
                   checksums |-> checksums]
             ELSE IF Len(chars) = 3
             THEN BubbleDecodeLoop(tuples, idx + 1, checksum,
                      Append(result, BubbleByte(chars, checksum)),
                      Append(checksums, checksum))
             ELSE LET byte1 == BubbleByte(chars, checksum)
                      byte2 == OR(consonant_index(chars[4]) * 16,
                                  consonant_index(chars[5])) % 256
                  IN  BubbleDecodeLoop(tuples, idx + 1,
                          replayed_checksum(checksum, byte1, byte2),
                          result \o <<byte1, byte2>>, Append(checksums, checksum))

\* BubbleBabble::decode up to the loop's outcome; for the one-character
\* text "x" the range of &cleaned_lower[1..len - 1] is reversed
BubbleDecode(s, mode) ==
    LET cleaned == IF mode = "Lenient" THEN SelectSeq(s, NotWhitespace) ELSE s
        cleaned_lower == ToLower(cleaned)
        n == Len(cleaned_lower)
    IN  IF cleaned = <<>> THEN [res |-> Ok(<<>>), checksums |-> <<>>]
        ELSE IF cleaned_lower[1] # 120 \/ cleaned_lower[n] # 120
        THEN [res |-> InvalidInput, checksums |-> <<>>]
        ELSE IF n = 1 THEN [res |-> Panic, checksums |-> <<>>]
        ELSE IF n = 2 THEN [res |-> Ok(<<>>), checksums |-> <<>>]
        ELSE BubbleDecodeLoop(Split(SubSeq(cleaned_lower, 2, n - 1), 45), 0, 1, <<>>, <<>>)

\* BubbleBabble::decode
bubblebabble_decode(s, mode) == BubbleDecode(s, mode).res

(***************************************************************************)
(* baudot.rs                                                               *)
(***************************************************************************)
BAUDOT_LETTERS ==
    <<0, 69, 10, 65, 32, 83, 73, 85, 13, 68, 82, 74, 78, 70, 67, 75, 84, 90, 76,
      87, 72, 89, 80, 81, 79, 66, 71, 0, 77, 88, 86, 0>>

BAUDOT_FIGURES ==
    <<0, 51, 10, 45, 32, 39, 56, 55, 13, 36, 52, 7, 44, 33, 58, 40, 53, 34, 41,
      50, 35, 54, 48, 49, 57, 63, 38, 0, 46, 47, 59, 0>>

LTRS_CODE == 31

FIGS_CODE == 27

\* (byte as char).to_uppercase().next(): the first character of the upper
\* case of a character of U+0000..U+00FF; U+00DF maps to "SS", U+00B5 to
\* U+039C and U+00FF to U+0178
UppercaseFirst(byte) ==
    IF IsAsciiLower(byte) THEN byte - 32
    ELSE IF byte = 181 THEN 924
    ELSE IF byte = 223 THEN 83
    ELSE IF byte = 255 THEN 376
    ELSE IF byte >= 224 /\ byte # 247 THEN byte - 32
    ELSE byte

\* format!("{:05b}", code)
Binary5(code) == [i \in 1..5 |-> 48 + ((code \div 2^(5 - i)) % 2)]

\* letter_map.get / figure_map.get: the code of a character, -1 for None
BaudotCode(table, ch) == IF ch = 0 THEN -1 ELSE IndexOf(table, ch) - 1

\* the loop of Baudot::encode from byte i on
RECURSIVE BaudotEncodeLoop(_, _, _, _)
BaudotEncodeLoop(bytes, i, in_letters, result) ==
    IF i > Len(bytes) THEN Ok(result)
    ELSE LET ch == UppercaseFirst(bytes[i])
             letter == BaudotCode(BAUDOT_LETTERS, ch)
             figure == BaudotCode(BAUDOT_FIGURES, ch)
         IN  IF letter # -1
             THEN BaudotEncodeLoop(bytes, i + 1, TRUE,
                      result \o (IF ~in_letters THEN Binary5(LTRS_CODE) ELSE <<>>)
                             \o Binary5(letter))
             ELSE IF figure # -1
             THEN BaudotEncodeLoop(bytes, i + 1, FALSE,
                      result \o (IF in_letters THEN Binary5(FIGS_CODE) ELSE <<>>)
                             \o Binary5(figure))
             ELSE InvalidInput

\* Baudot::encode
baudot_encode(bytes) == BaudotEncodeLoop(bytes, 1, TRUE, <<>>)

\* u8::from_str_radix(chunk, 2) of a five-byte chunk: binary digits, the
\* first of which may be a '+' sign; -1 for an error (from_utf8 fails
\* only on a chunk that holds a byte that is no digit)
BaudotChunk(chunk) ==
    IF /\ \A k \in 2..5 : chunk[k] \in {48, 49}
       /\ chunk[1] \in {43, 48, 49}
    THEN (IF chunk[1] = 49 THEN 16 ELSE 0)
         + (chunk[2] - 48) * 8 + (chunk[3] - 48) * 4 + (chunk[4] - 48) * 2 + (chunk[5] - 48)
    ELSE -1

\* the loop of Baudot::decode over the chunks from byte i on
RECURSIVE BaudotDecodeLoop(_, _, _, _)
BaudotDecodeLoop(bytes, i, in_letters, result) ==
    IF i > Len(bytes) THEN Ok(result)
    ELSE LET code == BaudotChunk(SubSeq(bytes, i, i + 4))
             ch == IF in_letters THEN BAUDOT_LETTERS[code + 1] ELSE BAUDOT_FIGURES[code + 1]
         IN  IF code = -1 THEN InvalidInput
             ELSE IF code = LTRS_CODE THEN BaudotDecodeLoop(bytes, i + 5, TRUE, result)
             ELSE IF code = FIGS_CODE THEN BaudotDecodeLoop(bytes, i + 5, FALSE, result)
             ELSE IF ch = 0 THEN InvalidInput
             ELSE BaudotDecodeLoop(bytes, i + 5, in_letters, Append(result, ch))

IsBinaryDigit(c) == c \in {48, 49}

\* Baudot::decode
baudot_decode(s, mode) ==
    LET cleaned == IF mode = "Lenient" THEN SelectSeq(s, IsBinaryDigit) ELSE s
        bytes == Utf8(cleaned)
    IN  IF Len(bytes) % 5 # 0 THEN InvalidInput
        ELSE BaudotDecodeLoop(bytes, 1, TRUE, <<>>)

(***************************************************************************)
(* base85.rs (Z85), base85chunked.rs, rfc1924.rs and base85rfc1924.rs:     *)
(* the decoders fold `val * 85 + v` into a u32, or a u128, which a build   *)
(* with overflow checks traps on and any other build wraps.  A value is    *)
(* held as its base-256 digits, least significant first.                   *)
(***************************************************************************)
RFC1924_ALPHABET ==
    <<48, 49, 50, 51, 52, 53, 54, 55, 56, 57, 65, 66, 67, 68, 69, 70, 71, 72,
      73, 74, 75, 76, 77, 78, 79, 80, 81, 82, 83, 84, 85, 86, 87, 88, 89, 90,
      97, 98, 99, 100, 101, 102, 103, 104, 105, 106, 107, 108, 109, 110, 111,
      112, 113, 114, 115, 116, 117, 118, 119, 120, 121, 122, 33, 35, 36, 37,
      38, 40, 41, 42, 43, 45, 59, 60, 61, 62, 63, 64, 94, 95, 96, 123, 124,
      125, 126>>

RFC1924_ENCODED_LEN == 20

RFC1924_BYTES_LEN == 16

\* the value of a group of base-85 digits, most significant first
Base85Value(digits) == FoldMulAdd(digits, Len(digits), <<>>, 85, 256)

\* the big-endian bytes of the value truncated to `width` bytes
Base85Bytes(digits, width) ==
    LET d == Base85Value(digits)
    IN  [i \in 1..width |-> IF width + 1 - i <= Len(d) THEN d[width + 1 - i] ELSE 0]

\* the position of each symbol in the alphabet, -1 for None
Positions(s, alphabet) == [i \in 1..Len(s) |-> IndexOf(alphabet, s[i]) - 1]

\* the loop of decode_z85 over the five-byte chunks from byte i on
RECURSIVE Z85Loop(_, _, _, _)
Z85Loop(bytes, i, result, overflow_checks) ==
    IF i > Len(bytes) THEN Ok(result)
    ELSE LET digits == Positions(SubSeq(bytes, i, i + 4), Z85_ALPHABET)
             bad == FirstBad(digits, 0..84)
         IN  IF bad # 0 THEN InvalidCharacter(bytes[i + bad - 1], i + bad - 2)
             ELSE IF overflow_checks /\ Len(Base85Value(digits)) > 4 THEN Panic
             ELSE Z85Loop(bytes, i + 5, result \o Base85Bytes(digits, 4), overflow_checks)

decode_z85(s, mode, overflow_checks) ==
    LET cleaned == clean_for_mode(s, mode)
        bytes == Utf8(cleaned)
    IN  IF cleaned = <<>> THEN Ok(<<>>)
        ELSE IF Len(bytes) % 5 # 0 THEN InvalidLength
        ELSE Z85Loop(bytes, 1, <<>>, overflow_checks)

\* the while loop of Base85Chunked::decode from character i on (counted
\* from 1); a short last group is filled with the digit 84
RECURSIVE Base85ChunkedLoop(_, _, _, _)
Base85ChunkedLoop(chars, i, result, overflow_checks) ==
    IF i > Len(chars) THEN Ok(result)
    ELSE LET chunk_len == Min(5, Len(chars) - i + 1)
             digits == Positions(SubSeq(chars, i, i + chunk_len - 1), RFC1924_ALPHABET)
             bad == FirstBad(digits, 0..84)
             padded == digits \o Repeat(84, 5 - chunk_len)
         IN  IF chunk_len = 1 THEN InvalidInput
             ELSE IF bad # 0 THEN InvalidCharacter(chars[i + bad - 1], i + bad - 2)
             ELSE IF overflow_checks /\ Len(Base85Value(padded)) > 4 THEN Panic
             ELSE Base85ChunkedLoop(chars, i + chunk_len,
                      result \o SubSeq(Base85Bytes(padded, 4), 1, chunk_len - 1),
                      overflow_checks)

\* Base85Chunked::decode
base85chunked_decode(s, mode, overflow_checks) ==
    LET cleaned == IF mode = "Lenient" THEN SelectSeq(s, NotWhitespace) ELSE s
    IN  IF cleaned = <<>> THEN Ok(<<>>)
        ELSE Base85ChunkedLoop(cleaned, 1, <<>>, overflow_checks)

\* rfc1924::decode_u128 followed by u128_to_bytes
decode_u128(s, overflow_checks) ==
    LET digits == Positions(s, RFC1924_ALPHABET)
        bad == FirstBad(digits, 0..84)
    IN  IF ByteLen(s) # RFC1924_ENCODED_LEN THEN InvalidInput
        ELSE IF bad # 0 THEN InvalidCharacter(s[bad], bad - 1)
        ELSE IF overflow_checks /\ Len(Base85Value(digits)) > RFC1924_BYTES_LEN THEN Panic
        ELSE Ok(Base85Bytes(digits, RFC1924_BYTES_LEN))

\* Base85Rfc1924::decode
base85rfc1924_decode(s, mode, overflow_checks) ==
    decode_u128(IF mode = "Lenient" THEN SelectSeq(s, NotWhitespace) ELSE s,
                overflow_checks)

(***************************************************************************)
(* codec/punycode.rs.  The u32 and usize values of the codec go beyond     *)
(* 2^31, so a number is the sequence of its base-256 digits, least         *)
(* significant first, without leading zero digits.                         *)
(***************************************************************************)
\* the digits of a small natural number
RECURSIVE Big(_)
Big(x) == IF x = 0 THEN <<>> ELSE <<x % 256>> \o Big(x \div 256)

\* the value of a number of at most three digits
RECURSIVE Small(_)
Small(v) == IF v = <<>> THEN 0 ELSE v[1] + 256 * Small(Tail(v))

\* without the leading zero digits
RECURSIVE BigNorm(_)
BigNorm(v) ==
    IF v # <<>> /\ v[Len(v)] = 0 THEN BigNorm(SubSeq(v, 1, Len(v) - 1)) ELSE v

BigDigit(v, i) == IF i <= Len(v) THEN v[i] ELSE 0

\* a + b
RECURSIVE BigAddFrom(_, _, _, _)
BigAddFrom(a, b, i, carry) ==
    IF i > Len(a) /\ i > Len(b)
    THEN IF carry > 0 THEN <<carry>> ELSE <<>>
    ELSE LET c == BigDigit(a, i) + BigDigit(b, i) + carry
         IN  <<c % 256>> \o BigAddFrom(a, b, i + 1, c \div 256)

BigAdd(a, b) == BigAddFrom(a, b, 1, 0)

\* a < b
RECURSIVE BigLess(_, _)
BigLess(a, b) ==
    IF Len(a) # Len(b) THEN Len(a) < Len(b)
    ELSE IF a = <<>> THEN FALSE
    ELSE IF a[Len(a)] # b[Len(b)] THEN a[Len(a)] < b[Len(b)]
    ELSE BigLess(BigNorm(SubSeq(a, 1, Len(a) - 1)), BigNorm(SubSeq(b, 1, Len(b) - 1)))

\* a - b for a >= b
RECURSIVE BigSubFrom(_, _, _, _)
BigSubFrom(a, b, i, borrow) ==
    IF i > Len(a) THEN <<>>
    ELSE LET c == BigDigit(a, i) - BigDigit(b, i) - borrow
         IN  IF c < 0 THEN <<c + 256>> \o BigSubFrom(a, b, i + 1, 1)
             ELSE <<c>> \o BigSubFrom(a, b, i + 1, 0)

BigSub(a, b) == BigNorm(BigSubFrom(a, b, 1, 0))

\* a * m for a multiplier below 2^22
BigMul(a, m) == BigNorm(MulAdd(a, 1, 0, m, 256))

\* quotient and remainder of a by a divisor d with 0 < d < 2^22, from the
\* most significant digit i down
RECURSIVE BigDivModFrom(_, _, _, _)
BigDivModFrom(a, d, i, rem) ==
    IF i = 0 THEN [q |-> <<>>, r |-> rem]
    ELSE LET cur == rem * 256 + a[i]
             rest == BigDivModFrom(a, d, i - 1, cur % d)
         IN  [q |-> rest.q \o <<cur \div d>>, r |-> rest.r]

BigDivSmall(a, d) == BigNorm(BigDivModFrom(a, d, Len(a), 0).q)

BigModSmall(a, d) == BigDivModFrom(a, d, Len(a), 0).r

\* a / b for b > 0: by a divisor below 2^16 digit by digit; by a larger
\* one the quotient of a 32-bit a is below 2^16 and found by search
BigDiv(a, b) ==
    IF Len(b) <= 2 THEN BigDivSmall(a, Small(b))
    ELSE Big(CHOOSE q \in 0..65535 :
                 /\ ~BigLess(a, BigMul(b, q))
                 /\ BigLess(a, BigMul(b, q + 1)))

\* u32::MAX
U32_MAX == <<255, 255, 255, 255>>

\* the value does not fit a u32
ExceedsU32(v) == Len(v) > 4

\* `v as u32` of a usize
AsU32(v) == BigNorm(SubSeq(v, 1, Min(Len(v), 4)))
BASE == 36

TMIN == 1

TMAX == 26

SKEW == 38

DAMP == 700

INITIAL_BIAS == 72

INITIAL_N == 128

\* the while loop of adapt
RECURSIVE AdaptLoop(_, _)
AdaptLoop(delta, k) ==
    IF BigLess(Big(((BASE - TMIN) * TMAX) \div 2), delta)
    THEN AdaptLoop(BigDivSmall(delta, BASE - TMIN), k + BASE)
    ELSE k + (((BASE - TMIN + 1) * Small(delta)) \div (Small(delta) + SKEW))

\* adapt: the new bias, or the panic of the division by numpoints = 0
adapt(delta, numpoints, firsttime) ==
    LET damped == IF firsttime THEN BigDivSmall(delta, DAMP) ELSE BigDivSmall(delta, 2)
    IN  IF numpoints = <<>> THEN [panic |-> TRUE, bias |-> 0]
        ELSE [panic |-> FALSE,
              bias |-> AdaptLoop(BigAdd(damped, BigDiv(damped, numpoints)), 0)]

encode_digit(d) == IF d < 26 THEN 97 + d ELSE 48 + (d - 26)

\* the digit's value, -1 for None
decode_digit(c) ==
    IF IsAsciiLower(c) THEN c - 97
    ELSE IF IsAsciiUpper(c) THEN c - 65
    ELSE IF IsAsciiDigit(c) THEN 26 + (c - 48)
    ELSE -1

\* the threshold t of a digit position (encode lines 99-105, decode 181-187)
Threshold(k, bias) ==
    IF k <= bias THEN TMIN
    ELSE IF k >= bias + TMAX THEN TMAX
    ELSE k - bias

\* a text is held as runs of one character: the character and the number
\* of its repetitions
CharRun(c, k) == [c |-> c, k |-> k]

\* chars.len() of the text
RECURSIVE RunsLen(_)
RunsLen(runs) ==
    IF runs = <<>> THEN <<>> ELSE BigAdd(runs[1].k, RunsLen(Tail(runs)))

IsBasicRun(r) == r.c < 128

\* the loop of encode that writes delta as a variable-length integer
RECURSIVE EncodeDelta(_, _, _)
EncodeDelta(q, k, bias) ==
    LET t == Threshold(k, bias)
        rest == BigSub(q, Big(t))
    IN  IF BigLess(q, Big(t)) THEN <<CharRun(encode_digit(Small(q)), <<1>>)>>
        ELSE <<CharRun(encode_digit(t + BigModSmall(rest, BASE - t)), <<1>>)>>
             \o EncodeDelta(BigDivSmall(rest, BASE - t), k + BASE, bias)

\* the branch c == n of encode's for loop, for the next `count` characters
\* of a run; st holds h, n, delta, bias, the output, whether an operation
\* left the u32 range, and the result that ended the call, if any
RECURSIVE EncodeEqual(_, _, _)
EncodeEqual(st, count, b) ==
    IF count = 0 \/ st.err # None THEN st
    ELSE LET next == BigAdd(st.h, <<1>>)
             adapted == adapt(st.delta, AsU32(next), st.h = b)
             seen == [st EXCEPT !.out = @ \o EncodeDelta(st.delta, BASE, st.bias)]
         IN  IF adapted.panic THEN [seen EXCEPT !.err = Panic]
             ELSE EncodeEqual([seen EXCEPT !.bias = adapted.bias,
                                           !.delta = <<>>,
                                           !.h = next],
                              count - 1, b)

\* encode's `for &c in &chars` from run j on; the r.k steps
\* delta.checked_add(1) of a run below n are taken at once
RECURSIVE EncodeFor(_, _, _, _)
EncodeFor(runs, j, st, b) ==
    IF j > Len(runs) \/ st.err # None THEN st
    ELSE LET r == runs[j]
             sum == BigAdd(st.delta, r.k)
         IN  IF r.c < st.n
             THEN IF ExceedsU32(sum)
                  THEN [st EXCEPT !.err = InvalidInput, !.exceeded = TRUE]
                  ELSE EncodeFor(runs, j + 1, [st EXCEPT !.delta = sum], b)
             ELSE IF r.c = st.n
             THEN EncodeFor(runs, j + 1, EncodeEqual(st, Small(r.k), b), b)
             ELSE EncodeFor(runs, j + 1, st, b)

\* encode's `while h < chars.len()`: the multiplication by (h + 1) as u32
\* takes the low 32 bits of h + 1, and the unchecked delta += 1 that closes
\* each round wraps, or traps in a build with overflow checks
RECURSIVE EncodeWhile(_, _, _, _)
EncodeWhile(runs, st, b, overflow_checks) ==
    IF st.err # None \/ ~BigLess(st.h, RunsLen(runs)) THEN st
    ELSE LET above == {runs[j].c : j \in {j \in 1..Len(runs) : runs[j].c >= st.n}}
             m == CHOOSE c \in above : \A d \in above : c <= d
             next == BigAdd(st.h, <<1>>)
             product == BigMul(AsU32(next), m - st.n)
             sum == BigAdd(st.delta, product)
             cast == [st EXCEPT !.exceeded = @ \/ ExceedsU32(BigMul(next, m - st.n))]
         IN  IF ExceedsU32(product) \/ ExceedsU32(sum)
             THEN [cast EXCEPT !.err = InvalidInput, !.exceeded = TRUE]
             ELSE LET s == EncodeFor(runs, 1, [cast EXCEPT !.delta = sum, !.n = m], b)
                  IN  IF s.err # None THEN s
                      ELSE IF s.delta # U32_MAX
                      THEN EncodeWhile(runs,
                               [s EXCEPT !.delta = BigAdd(@, <<1>>), !.n = @ + 1],
                               b, overflow_checks)
                      ELSE IF overflow_checks
                      THEN [s EXCEPT !.err = Panic, !.exceeded = TRUE]
                      ELSE EncodeWhile(runs,
                               [s EXCEPT !.delta = <<>>, !.n = @ + 1, !.exceeded = TRUE],
                               b, overflow_checks)

\* Punycode::encode of a valid UTF-8 input given as its characters: the
\* result, and whether an operation left the u32 range
punycode_encode(runs, overflow_checks) ==
    LET basic == SelectSeq(runs, IsBasicRun)
        b == RunsLen(basic)
        delimiter == IF b # <<>> /\ BigLess(b, RunsLen(runs))
                     THEN <<CharRun(45, <<1>>)>> ELSE <<>>
        st == EncodeWhile(runs,
                  [h |-> b, n |-> INITIAL_N, delta |-> <<>>, bias |-> INITIAL_BIAS,
                   out |-> basic \o delimiter, exceeded |-> FALSE, err |-> None],
                  b, overflow_checks)
    IN  [res |-> IF st.err # None THEN st.err ELSE Ok(st.out),
         exceeded |-> st.exceeded]

\* the inner loop of decode that reads one variable-length integer from
\* position pos (counted from 0) on
RECURSIVE DecodeDelta(_, _, _, _, _, _)
DecodeDelta(encoded, pos, i, w, k, bias) ==
    IF pos >= ByteLen(encoded) THEN [err |-> InvalidInput, exceeded |-> FALSE]
    ELSE IF pos >= Len(encoded) THEN [err |-> Panic, exceeded |-> FALSE]
    ELSE LET digit == decode_digit(encoded[pos + 1])
             product == BigMul(w, digit)
             sum == BigAdd(i, product)
             t == Threshold(k, bias)
             weight == BigMul(w, BASE - t)
         IN  IF digit = -1 THEN [err |-> InvalidInput, exceeded |-> FALSE]
             ELSE IF ExceedsU32(product) \/ ExceedsU32(sum)
             THEN [err |-> InvalidInput, exceeded |-> TRUE]
             ELSE IF digit < t
             THEN [err |-> None, exceeded |-> FALSE, i |-> sum, pos |-> pos + 1]
             ELSE IF ExceedsU32(weight) THEN [err |-> InvalidInput, exceeded |-> TRUE]
             ELSE DecodeDelta(encoded, pos + 1, sum, weight, k + BASE, bias)

\* Vec::insert(index, element), index counted from 0
InsertAt(s, index, e) == SubSeq(s, 1, index) \o <<e>> \o SubSeq(s, index + 1, Len(s))

\* decode's `while pos < encoded.len()`
RECURSIVE DecodeWhile(_, _, _, _, _, _)
DecodeWhile(encoded, pos, output, n, i, bias) ==
    IF pos >= ByteLen(encoded)
    THEN [err |-> None, exceeded |-> FALSE, output |-> output]
    ELSE LET d == DecodeDelta(encoded, pos, i, <<1>>, BASE, bias)
             numpoints == Len(output) + 1
             adapted == adapt(BigSub(d.i, i), Big(numpoints), i = <<>>)
             code == BigAdd(n, BigDivSmall(d.i, numpoints))
             index == BigModSmall(d.i, numpoints)
         IN  IF d.err # None THEN d
             ELSE IF ExceedsU32(code) THEN [err |-> InvalidInput, exceeded |-> TRUE]
             ELSE DecodeWhile(encoded, d.pos, InsertAt(output, index, code), code,
                              Big(index + 1), adapted.bias)

\* char::from_u32(c).is_some()
IsChar(code) ==
    /\ Len(code) <= 3
    /\ Small(code) <= 1114111
    /\ ~(Small(code) >= 55296 /\ Small(code) <= 57343)

\* Punycode::decode: the result, and whether an operation left the u32
\* range
PunycodeDecode(s, mode) ==
    LET cleaned == IF mode = "Lenient" THEN SelectSeq(s, NotWhitespace) ELSE s
        input_lower == ToLower(cleaned)
        dashes == {j \in 1..Len(input_lower) : input_lower[j] = 45}
        delimiter_pos == IF dashes = {} THEN 0
                         ELSE CHOOSE j \in dashes : \A l \in dashes : l <= j
        basic == IF dashes = {} THEN input_lower
                 ELSE SubSeq(input_lower, 1, delimiter_pos - 1)
        encoded == IF dashes = {} THEN <<>>
                   ELSE SubSeq(input_lower, delimiter_pos + 1, Len(input_lower))
        st == DecodeWhile(encoded, 0, [j \in 1..Len(basic) |-> Big(basic[j])],
                          Big(INITIAL_N), <<>>, INITIAL_BIAS)
        chars == SelectSeq(st.output, IsChar)
    IN  IF cleaned = <<>> THEN [res |-> Ok(<<>>), exceeded |-> FALSE]
        ELSE IF st.err # None THEN [res |-> st.err, exceeded |-> st.exceeded]
        ELSE [res |-> Ok(Utf8([j \in 1..Len(chars) |-> Small(chars[j])])),
              exceeded |-> FALSE]

\* Punycode::decode
punycode_decode(s, mode) == PunycodeDecode(s, mode).res

(***************************************************************************)
(* The Codec trait (codec/mod.rs): encode, decode and the metadata's       *)
(* alphabet, dispatched on the codec's canonical name.                     *)
(***************************************************************************)
Encode(c, bytes) ==
    CASE c = "base36lower"  -> Ok(encode_base36(bytes, LOWER_ALPHABET))
      [] c = "base36upper"  -> Ok(encode_base36(bytes, UPPER_ALPHABET))
      [] c = "base37"       -> Ok(encode_base37(bytes))
      [] c = "base58btc"    -> Ok(bs58_encode(bytes, BTC_ALPHABET))
      [] c = "base58flickr" -> Ok(bs58_encode(bytes, FLICKR_ALPHABET))
      [] c = "base58ripple" -> Ok(bs58_encode(bytes, RIPPLE_ALPHABET))
      [] c = "base62"       -> Ok(encode_base62(bytes))
      [] c = "base92"       -> Ok(base92_encode(bytes))
      [] c = "base65536"    -> Ok(base65536_encode(bytes))
      [] c = "tapcode"      -> tapcode_encode(bytes)
      [] c = "a1z26"        -> a1z26_encode(bytes)
      [] c = "z85"          -> encode_z85(bytes)
      [] c = "ascii85"      -> Ok(encode_ascii85(bytes))
      [] c = "rot13"        -> Ok(rot13_encode(bytes))
      [] c = "base16lower"  -> Ok(encode_hex(bytes, HEX_LOWER_ALPHABET))
      [] c = "base16upper"  -> Ok(encode_hex(bytes, HEX_UPPER_ALPHABET))
      [] c = "base2"        -> Ok(base2_encode(bytes))
      [] c = "crockford32"  -> Ok(crockford_encode(bytes))
      [] c = "base64"       -> Ok(base64_encode(bytes, STANDARD_ALPHABET, FALSE))
      [] c = "base64pad"    -> Ok(base64_encode(bytes, STANDARD_ALPHABET, TRUE))
      [] c = "base64url"    -> Ok(base64_encode(bytes, URL_ALPHABET, FALSE))
      [] c = "base64urlpad" -> Ok(base64_encode(bytes, URL_ALPHABET, TRUE))
      [] c = "base58check"  -> Ok(base58check_encode(bytes))
      [] c = "bech32"       -> encode_bech32(DEFAULT_HRP, bytes, FALSE)
      [] c = "bech32m"      -> encode_bech32(DEFAULT_HRP, bytes, TRUE)
      [] c = "base45"       -> Ok(encode_base45(bytes))
      [] c = "base91"       -> Ok(base91_encode(bytes))
      [] c = "bubblebabble" -> Ok(bubblebabble_encode(bytes))
      [] c = "baudot"       -> baudot_encode(bytes)

\* overflow_checks tells whether the build panics on integer overflow
Decode(c, s, mode, overflow_checks) ==
    CASE c = "base36lower"  -> decode_base36(s, mode, TRUE)
      [] c = "base36upper"  -> decode_base36(s, mode, FALSE)
      [] c = "base37"       -> decode_base37(s, mode)
      [] c = "base58btc"    -> base58_decode(s, mode, BTC_ALPHABET)
      [] c = "base58flickr" -> base58_decode(s, mode, FLICKR_ALPHABET)
      [] c = "base58ripple" -> base58ripple_decode(s, mode)
      [] c = "base62"       -> decode_base62(s, mode)
      [] c = "base92"       -> base92_decode(s, mode)
      [] c = "base65536"    -> base65536_decode(s, mode)
      [] c = "base16lower"  -> decode_hex(s, mode, HEX_LOWER_ALPHABET)
      [] c = "base16upper"  -> decode_hex(s, mode, HEX_UPPER_ALPHABET)
      [] c = "base2"        -> base2_decode(s, mode)
      [] c = "crockford32"  -> crockford_decode(s, mode)
      [] c = "base64"       -> base64_nopad_decode(s, mode, STANDARD_ALPHABET)
      [] c = "base64pad"    -> base64_pad_decode(s, mode, STANDARD_ALPHABET)
      [] c = "base64url"    -> base64_nopad_decode(s, mode, URL_ALPHABET)
      [] c = "base64urlpad" -> base64_pad_decode(s, mode, URL_ALPHABET)
      [] c = "base58check"  -> base58check_decode(s, mode)
      [] c = "bech32"       -> decode_bech32_strict(s, mode, FALSE)
      [] c = "bech32m"      -> decode_bech32_strict(s, mode, TRUE)
      [] c = "quoted-printable" -> quotedprintable_decode(s, mode)
      [] c = "ascii85"      -> decode_ascii85(s, mode, overflow_checks)
      [] c = "rot13"        -> Ok(rot13_decode(s))
      [] c = "base45"       -> decode_base45(s, mode)
      [] c = "base91"       -> base91_decode(s, mode)
      [] c = "bubblebabble" -> bubblebabble_decode(s, mode)
      [] c = "z85"          -> decode_z85(s, mode, overflow_checks)
      [] c = "base85chunked" -> base85chunked_decode(s, mode, overflow_checks)
      [] c = "punycode" -> punycode_decode(s, mode)
      [] c = "base85rfc1924" -> base85rfc1924_decode(s, mode, overflow_checks)
      [] c = "baudot"       -> baudot_decode(s, mode)

\* CodecMeta::alphabet of the codecs whose alphabet is a symbol list
Alphabet(c) ==
    CASE c = "base36lower"  -> LOWER_ALPHABET
      [] c = "base36upper"  -> UPPER_ALPHABET
      [] c = "base37"       -> BASE37_ALPHABET
      [] c = "base58btc"    -> BTC_ALPHABET
      [] c = "base58flickr" -> FLICKR_ALPHABET
      [] c = "base58ripple" -> RIPPLE_ALPHABET
      [] c = "base62"       -> BASE62_ALPHABET
      [] c = "base92"       -> BASE92_ALPHABET
      [] c = "base16lower"  -> HEX_LOWER_ALPHABET
      [] c = "base16upper"  -> HEX_UPPER_ALPHABET
      [] c = "base2"        -> <<48, 49>>
      [] c = "crockford32"  -> CROCKFORD_ALPHABET
      [] c = "base64"       -> STANDARD_ALPHABET
      [] c = "base64pad"    -> STANDARD_ALPHABET
      [] c = "base64url"    -> URL_ALPHABET
      [] c = "base64urlpad" -> URL_ALPHABET
      [] c = "base58check"  -> BTC_ALPHABET
      [] c = "bech32"       -> BECH32_ALPHABET
      [] c = "bech32m"      -> BECH32_ALPHABET

(***************************************************************************)
(* Bounds and input domains.                                               *)
(***************************************************************************)
\* longest byte sequence handed to encode
MaxLen == 3

\* the byte values inputs are drawn from: zero, small, a radix, all ones
ByteVals == {0, 1, 58, 255}

Inputs == SeqsUpTo(ByteVals, MaxLen)

PositionalCodecs ==
    {"base36lower", "base36upper", "base37", "base58btc", "base58flickr",
     "base58ripple", "base62", "base92"}

\* the general binary codecs: every byte sequence is in their domain
RoundTripCodecs == PositionalCodecs \cup {"base65536"}

(***************************************************************************)
(* Specification Spec: a caller encodes a byte sequence, hands the text    *)
(* to decode in Strict mode and looks at the outcome (the round trip the   *)
(* library's users and tests perform).                                     *)
(***************************************************************************)
Init ==
    /\ pc = "start"
    /\ codec \in RoundTripCodecs
    /\ input \in Inputs
    /\ enc = None
    /\ text = <<>>
    /\ strict = None
    /\ lenient = None
    /\ validated = None
    /\ RegistryIdle
    /\ CliIdle
    /\ DetectIdle

\* codec.encode(&input)
EncodeInput ==
    /\ pc = "start"
    /\ enc' = Encode(codec, input)
    /\ pc' = "encoded"
    /\ UNCHANGED <<codec, input, text, strict, lenient, validated>>
    /\ UNCHANGED systemVars

\* the encoded text is what the caller passes on
Submit ==
    /\ pc = "encoded"
    /\ enc.ok
    /\ text' = enc.val
    /\ pc' = "ready"
    /\ UNCHANGED <<codec, input, enc, strict, lenient, validated>>
    /\ UNCHANGED systemVars

\* the build settings that can change the outcome of the codec's decode:
\* the base-85 decoders have arithmetic that can overflow
OverflowChecks(c) ==
    IF c \in {"ascii85", "z85", "base85chunked", "base85rfc1924"}
    THEN BOOLEAN ELSE {TRUE}

\* codec.decode(&text, Mode::Strict)
DecodeStrict ==
    /\ pc = "ready"
    /\ \E overflow_checks \in OverflowChecks(codec) :
           strict' = Decode(codec, text, "Strict", overflow_checks)
    /\ pc' = "done"
    /\ UNCHANGED <<codec, input, enc, text, lenient, validated>>
    /\ UNCHANGED systemVars

Next == EncodeInput \/ Submit \/ DecodeStrict

Spec == Init /\ [][Next]_vars

(***************************************************************************)
(* Specification SpecText: a caller hands an arbitrary short text to       *)
(* decode, first in Strict mode and then in Lenient mode.                  *)
(***************************************************************************)
\* longest text handed to decode directly
MaxTextLen == 3

\* newline, space, '!', '0', '=', 'A', 'a' and a character above U+00FF
TextChars == {10, 32, 33, 48, 61, 65, 97, 321}

\* every short text, and "x"
Texts == SeqsUpTo(TextChars, MaxTextLen) \cup {<<120>>}

TextCodecs ==
    RoundTripCodecs \cup
    {"quoted-printable", "base16lower", "base16upper", "base2", "crockford32",
     "base64", "base64pad", "base64url", "base64urlpad", "ascii85", "rot13",
     "base45", "base91", "bubblebabble", "baudot"}

InitText ==
    /\ pc = "ready"
    /\ codec \in TextCodecs
    /\ text \in Texts
    /\ input = <<>>
    /\ enc = None
    /\ strict = None
    /\ lenient = None
    /\ validated = None
    /\ RegistryIdle
    /\ CliIdle
    /\ DetectIdle

\* codec.decode(&text, Mode::Lenient)
DecodeLenient ==
    /\ pc = "done"
    /\ \E overflow_checks \in OverflowChecks(codec) :
           lenient' = Decode(codec, text, "Lenient", overflow_checks)
    /\ pc' = "both"
    /\ UNCHANGED <<codec, input, enc, text, strict, validated>>
    /\ UNCHANGED systemVars

NextText == DecodeStrict \/ DecodeLenient

SpecText == InitText /\ [][NextText]_vars

(***************************************************************************)
(* Specification SpecChecksum: a caller encodes a payload with one of the  *)
(* checksum-bearing codecs, then passes the text on unchanged, or with one *)
(* symbol replaced, or to the sibling Bech32 variant, and decodes it in    *)
(* both modes.                                                             *)
(***************************************************************************)
\* longest payload given to a checksum-bearing codec
MaxPayload == 1

ChecksumBytes == {0, 255}

ChecksumInputs == SeqsUpTo(ChecksumBytes, MaxPayload)

ChecksumCodecs == {"base58check", "bech32", "bech32m"}

Bech32Codecs == {"bech32", "bech32m"}

\* '1', '2', 'z', 'q', 'l', '0', 'D', 'A' and space: symbols of either
\* alphabet, upper-case forms, characters of neither alphabet, whitespace
ReplaceChars == {49, 50, 122, 113, 108, 48, 68, 65, 32}

InitChecksum ==
    /\ pc = "start"
    /\ codec \in ChecksumCodecs
    /\ input \in ChecksumInputs
    /\ enc = None
    /\ text = <<>>
    /\ strict = None
    /\ lenient = None
    /\ validated = None
    /\ RegistryIdle
    /\ CliIdle
    /\ DetectIdle

\* one symbol of the encoded text is replaced by a different character
Replace ==
    /\ pc = "encoded"
    /\ enc.ok
    /\ \E i \in 1..Len(enc.val) : \E c \in ReplaceChars \ {enc.val[i]} :
           text' = [enc.val EXCEPT ![i] = c]
    /\ pc' = "ready"
    /\ UNCHANGED <<codec, input, enc, strict, lenient, validated>>
    /\ UNCHANGED systemVars

\* the text of one Bech32 variant is given to the other variant's decoder
CrossSubmit ==
    /\ pc = "encoded"
    /\ enc.ok
    /\ codec \in Bech32Codecs
    /\ codec' = IF codec = "bech32" THEN "bech32m" ELSE "bech32"
    /\ text' = enc.val
    /\ pc' = "ready"
    /\ UNCHANGED <<input, enc, strict, lenient, validated>>
    /\ UNCHANGED systemVars

NextChecksum ==
    EncodeInput \/ Submit \/ Replace \/ CrossSubmit \/ DecodeStrict \/ DecodeLenient

SpecChecksum == InitChecksum /\ [][NextChecksum]_vars

(***************************************************************************)
(* Specification SpecEncode: a caller encodes a byte sequence, the empty   *)
(* one included, and looks at the outcome of encode.                       *)
(***************************************************************************)
\* longest input given to encode alone
MaxEncodeLen == 4

\* NUL, the letter 'A' and a byte that is not valid UTF-8
EncodeBytes == {0, 65, 255}

EncodeInputs == SeqsUpTo(EncodeBytes, MaxEncodeLen)

EncodeCodecs ==
    (TextCodecs \ {"quoted-printable"}) \cup {"tapcode", "a1z26", "z85"}

InitEncode ==
    /\ pc = "start"
    /\ codec \in EncodeCodecs
    /\ input \in EncodeInputs
    /\ enc = None
    /\ text = <<>>
    /\ strict = None
    /\ lenient = None
    /\ validated = None
    /\ RegistryIdle
    /\ CliIdle
    /\ DetectIdle

NextEncode == EncodeInput

SpecEncode == InitEncode /\ [][NextEncode]_vars

(***************************************************************************)
(* Specification SpecVariant: a caller encodes a byte sequence and passes  *)
(* on the canonical text or a variant of it - whitespace inserted, letters *)
(* in the other case, or the padding convention of the sibling codec - and *)
(* decodes it in both modes.                                               *)
(***************************************************************************)
\* longest input whose encoding is varied
MaxVariantLen == 2

VariantBytes == {0, 58, 255}

VariantInputs == SeqsUpTo(VariantBytes, MaxVariantLen)

NoPaddingCodecs == {"base64", "base64url"}

PaddingCodecs == {"base64pad", "base64urlpad"}

\* CaseSensitivity::Lower or CaseSensitivity::Upper in the codec's meta()
CaseClassCodecs ==
    {"base16lower", "base16upper", "base36lower", "base36upper", "crockford32"}

VariantCodecs ==
    CaseClassCodecs \cup NoPaddingCodecs \cup PaddingCodecs \cup
    {"base2", "base58btc", "base58ripple", "base62"}

\* space and line feed
WhitespaceChars == {32, 10}

InitVariant ==
    /\ pc = "start"
    /\ codec \in VariantCodecs
    /\ input \in VariantInputs
    /\ enc = None
    /\ text = <<>>
    /\ strict = None
    /\ lenient = None
    /\ validated = None
    /\ RegistryIdle
    /\ CliIdle
    /\ DetectIdle

\* one whitespace character is put in front of, inside or behind the text
InsertWhitespace ==
    /\ pc = "encoded"
    /\ enc.ok
    /\ \E i \in 0..Len(enc.val) : \E w \in WhitespaceChars :
           text' = SubSeq(enc.val, 1, i) \o <<w>> \o SubSeq(enc.val, i + 1, Len(enc.val))
    /\ pc' = "ready"
    /\ UNCHANGED <<codec, input, enc, strict, lenient, validated>>
    /\ UNCHANGED systemVars

\* some of the letters of the text are written in the other case
ChangeCase ==
    /\ pc = "encoded"
    /\ enc.ok
    /\ LET letters == {i \in 1..Len(enc.val) :
                          IsAsciiUpper(enc.val[i]) \/ IsAsciiLower(enc.val[i])}
       IN  \E flipped \in SUBSET letters :
               /\ flipped # {}
               /\ text' = [i \in 1..Len(enc.val) |->
                             IF i \notin flipped THEN enc.val[i]
                             ELSE IF IsAsciiUpper(enc.val[i])
                                  THEN ToAsciiLower(enc.val[i])
                                  ELSE ToAsciiUpper(enc.val[i])]
    /\ pc' = "ready"
    /\ UNCHANGED <<codec, input, enc, strict, lenient, validated>>
    /\ UNCHANGED systemVars

\* the text is written in the sibling codec's padding convention: '='
\* padding is added for a no-padding codec and removed for a padding codec
Repad ==
    /\ pc = "encoded"
    /\ enc.ok
    /\ codec \in NoPaddingCodecs \cup PaddingCodecs
    /\ text' = IF codec \in NoPaddingCodecs THEN pad_to_multiple(enc.val, 4)
               ELSE TrimPadding(enc.val)
    /\ text' # enc.val
    /\ pc' = "ready"
    /\ UNCHANGED <<codec, input, enc, strict, lenient, validated>>
    /\ UNCHANGED systemVars

NextVariant ==
    \/ EncodeInput
    \/ Submit
    \/ InsertWhitespace
    \/ ChangeCase
    \/ Repad
    \/ DecodeStrict
    \/ DecodeLenient

SpecVariant == InitVariant /\ [][NextVariant]_vars

(***************************************************************************)
(* Specification SpecRegistry: threads call Registry::global() for the     *)
(* first time concurrently and then look codecs up by name.  The           *)
(* OnceLock lets one thread run Registry::new while the others wait; a     *)
(* panic of the initializer leaves the cell empty and the next caller      *)
(* initializes again.                                                      *)
(***************************************************************************)
\* number of threads calling Registry::global()
NumThreads == 3

Threads == 1..NumThreads

\* REGISTERED with the multibase code of codec i set to code
WithMultibase(i, code) ==
    [REGISTERED EXCEPT ![i] = [REGISTERED[i] EXCEPT !.multibase_code = code]]

\* the register_codecs! list as it is, and as it would be with a prefix
\* declared a second time: 'z' by Atbash (before its owner Base58Btc) and
\* 'f' by UrlEncoding (after its owner Base16Lower)
Registrations ==
    {REGISTERED, WithMultibase(1, 122), WithMultibase(Len(REGISTERED), 102)}

\* "HEX", "hex", "B36", "base64", "BASE64", "zz"
Queries ==
    {<<72, 69, 88>>, <<104, 101, 120>>, <<66, 51, 54>>,
     <<98, 97, 115, 101, 54, 52>>, <<66, 65, 83, 69, 54, 52>>, <<122, 122>>}

\* a thread that has not called anything yet
IdleThread == [pc |-> "idle", ref |-> 0, found |-> -1]

InitRegistry ==
    /\ registered \in Registrations
    /\ once = "incomplete"
    /\ registry = None
    /\ builds = 0
    /\ thread = [t \in Threads |-> IdleThread]
    /\ CodecIdle
    /\ CliIdle
    /\ DetectIdle

\* the guard left out: a caller initializes whenever the cell is empty
CanInitializeUnguarded(state) == state # "complete"

\* Once::call_once_force runs the closure when no initialization has
\* completed and none is running
CanInitialize(state) == state \in {"incomplete", "poisoned"}

\* OnceLock::get_or_init as entered by thread t: the value if there is
\* one, else become the initializer, else wait for the running one
EnterOnce(t) ==
    IF once = "complete"
    THEN /\ thread' = [thread EXCEPT ![t] = [@ EXCEPT !.pc = "ready", !.ref = builds]]
         /\ once' = once
    ELSE IF CanInitialize(once)
    THEN /\ thread' = [thread EXCEPT ![t] = [@ EXCEPT !.pc = "initializing"]]
         /\ once' = "running"
    ELSE /\ thread' = [thread EXCEPT ![t] = [@ EXCEPT !.pc = "waiting"]]
         /\ once' = once

\* Registry::global() is called by a thread
CallGlobal ==
    /\ \E t \in Threads :
           /\ thread[t].pc = "idle"
           /\ EnterOnce(t)
    /\ UNCHANGED <<registered, registry, builds, codecVars, cliVars, detectVars>>

\* the initializer runs Registry::new: the value is stored and the cell
\* completed, or build_registry panics and the cell stays empty
FinishInit ==
    /\ \E t \in Threads :
           /\ thread[t].pc = "initializing"
           /\ LET built == build_registry(registered)
              IN  IF built.ok
                  THEN /\ registry' = built
                       /\ builds' = builds + 1
                       /\ once' = "complete"
                       /\ thread' = [thread EXCEPT ![t] =
                                        [@ EXCEPT !.pc = "ready", !.ref = builds + 1]]
                  ELSE /\ once' = "poisoned"
                       /\ thread' = [thread EXCEPT ![t] = [@ EXCEPT !.pc = "panicked"]]
                       /\ UNCHANGED <<registry, builds>>
    /\ UNCHANGED <<registered, codecVars, cliVars, detectVars>>

\* a waiting thread is woken when the running initialization has ended
Wake ==
    /\ once # "running"
    /\ \E t \in Threads :
           /\ thread[t].pc = "waiting"
           /\ EnterOnce(t)
    /\ UNCHANGED <<registered, registry, builds, codecVars, cliVars, detectVars>>

\* registry.get(name) by a thread that holds the reference
Get ==
    /\ \E t \in Threads : \E name \in Queries :
           /\ thread[t].pc = "ready"
           /\ thread' = [thread EXCEPT ![t] =
                            [@ EXCEPT !.found = registry_get(registry, name)]]
    /\ UNCHANGED <<registered, once, registry, builds, codecVars, cliVars, detectVars>>

NextRegistry == CallGlobal \/ FinishInit \/ Wake \/ Get

SpecRegistry == InitRegistry /\ [][NextRegistry]_vars

(***************************************************************************)
(* Specification SpecCli: one run of `mbase dec`: main parses the command  *)
(* line, run builds the Context and executes the command, and the process  *)
(* exits with the code of the result.                                      *)
(***************************************************************************)
\* the error kinds of MbaseError
ErrorKinds ==
    {"InvalidInput", "InvalidCharacter", "InvalidLength", "InvalidPadding",
     "ChecksumMismatch", "Io", "UnsupportedCodec"}

\* MbaseError::exit_code as the u8 of the ExitCode it selects
exit_code(kind) ==
    CASE kind \in {"InvalidInput", "InvalidCharacter", "InvalidLength", "InvalidPadding"} -> 10
      [] kind = "ChecksumMismatch" -> 11
      [] kind = "Io" -> 12
      [] kind = "UnsupportedCodec" -> 13

\* std::io::Error converted by `?` (#[from])
Io == Err("Io")

\* Registry::unsupported_codec
UnsupportedCodec == Err("UnsupportedCodec")

\* longest enumerated argument of --in
MaxCliLen == 2

\* 'A', '=', 'z' and a byte that is not UTF-8
CliBytes == {65, 61, 122, 255}

\* the arguments of --in: every short one, and "3QJmnj", the Base58Check
\* encoding of the empty payload with its last symbol changed
CliData == SeqsUpTo(CliBytes, MaxCliLen) \cup {<<51, 81, 74, 109, 110, 106>>}

\* "base64", "base64pad", "base58check", "hex", "HEX", "nope"
CliCodecNames ==
    {<<98, 97, 115, 101, 54, 52>>, <<98, 97, 115, 101, 54, 52, 112, 97, 100>>,
     <<98, 97, 115, 101, 53, 56, 99, 104, 101, 99, 107>>, <<104, 101, 120>>,
     <<72, 69, 88>>, <<110, 111, 112, 101>>}

\* the parsed command line of `mbase dec`: --codec, --in as a literal or
\* an @file, --mode, --multibase
CommandLines ==
    [codec_name : CliCodecNames, source : {"Literal", "File"}, data : CliData,
     mode : {"Strict", "Lenient"}, multibase : BOOLEAN]

InitCli ==
    /\ cli \in CommandLines
    /\ outcome = None
    /\ exit = -1
    /\ registered = REGISTERED
    /\ once = "incomplete"
    /\ registry = None
    /\ builds = 0
    /\ thread = <<>>
    /\ CodecIdle
    /\ DetectIdle

\* the index of the first codec of Registry::list() whose multibase_code
\* is the prefix, 0 if there is none
RECURSIVE MultibaseOwner(_, _, _)
MultibaseOwner(codecs, prefix, i) ==
    IF i > Len(codecs) THEN 0
    ELSE IF codecs[i].multibase_code = prefix THEN i
    ELSE MultibaseOwner(codecs, prefix, i + 1)

\* registry.get(name)?.decode(s, mode)
GetAndDecode(self, name, s, mode, overflow_checks) ==
    LET i == registry_get(self, name)
    IN  IF i = 0 THEN UnsupportedCodec
        ELSE Decode(self.codecs[i].id, s, mode, overflow_checks)

\* run_decode after read_input returned data
run_decode(self, codec_name, data, mode, multibase, overflow_checks) ==
    LET s == Utf8Lossy(data)
        owner == IF multibase /\ s # <<>>
                 THEN MultibaseOwner(registry_list(self), s[1], 1) ELSE 0
    IN  IF owner # 0
        THEN GetAndDecode(self, self.codecs[owner].name, Tail(s), mode, overflow_checks)
        ELSE GetAndDecode(self, codec_name, s, mode, overflow_checks)

\* run(cli): Context::default() builds the registry, read_input reads the
\* literal, or the file, which the system may fail to open or read, and
\* DecCommand::execute decodes
Run ==
    /\ exit = -1
    /\ outcome = None
    /\ LET built == build_registry(registered)
       IN  /\ registry' = built
           /\ once' = "complete"
           /\ builds' = builds + 1
           /\ \/ outcome' = run_decode(built, cli.codec_name, cli.data, cli.mode,
                                       cli.multibase, TRUE)
              \/ /\ cli.source = "File"
                 /\ outcome' = Io
    /\ UNCHANGED <<cli, exit, registered, thread, codecVars, detectVars>>

\* main: Ok(()) => ExitCode::SUCCESS, Err(e) => e.exit_code().into()
Exit ==
    /\ exit = -1
    /\ outcome # None
    /\ exit' = IF outcome.ok THEN 0 ELSE exit_code(outcome.kind)
    /\ UNCHANGED <<cli, outcome, registryVars, codecVars, detectVars>>

NextCli == Run \/ Exit

SpecCli == InitCli /\ [][NextCli]_vars

(***************************************************************************)
(* commands/detect.rs                                                      *)
(***************************************************************************)
RECURSIVE TrimStart(_)
TrimStart(s) == IF s # <<>> /\ IsWhitespace(Head(s)) THEN TrimStart(Tail(s)) ELSE s

\* str::trim
Trim(s) == Reverse(TrimStart(Reverse(TrimStart(s))))

\* str::is_char_boundary(k) for 0 < k < len
IsCharBoundary(s, k) == \E i \in 1..Len(s) : ByteLen(SubSeq(s, 1, i)) = k

\* the struct registered under a canonical name
CodecId(self, name) ==
    LET i == CHOOSE j \in 1..Len(self.codecs) : self.codecs[j].name = name
    IN  self.codecs[i].id

\* validate_crockford (base32human.rs): the characters only; Strict asks
\* for char::is_ascii_uppercase, which no digit satisfies
validate_crockford(s, mode) ==
    LET KeepCrockford(c) == ~IsAsciiWhitespace(c) /\ c # 45
        cleaned == IF mode = "Strict" THEN s ELSE SelectSeq(s, KeepCrockford)
        IsValid(ch) ==
            LET upper == ToAsciiUpper(ch)
            IN  IF mode = "Strict"
                THEN upper \in Symbols(CROCKFORD_ALPHABET) /\ IsAsciiUpper(ch)
                ELSE upper \in Symbols(CROCKFORD_ALPHABET) \/ upper \in {79, 73, 76}
        bad == FirstBad(cleaned, {ch \in Symbols(cleaned) : IsValid(ch)})
    IN  IF bad # 0 THEN InvalidCharacter(cleaned[bad], bad - 1) ELSE Ok(<<>>)

\* validate_base45 (base45.rs): the characters and the length in bytes
validate_base45(s, mode) ==
    LET cleaned == clean_for_mode(s, mode)
        IsValid(c) ==
            IF mode = "Strict" THEN c \in Symbols(BASE45_ALPHABET)
            ELSE ToAsciiUpper(c) \in Symbols(BASE45_ALPHABET)
        bad == FirstBad(cleaned, {c \in Symbols(cleaned) : IsValid(c)})
    IN  IF bad # 0 THEN InvalidCharacter(cleaned[bad], bad - 1)
        ELSE IF ByteLen(cleaned) % 3 = 1 THEN InvalidInput
        ELSE Ok(<<>>)

\* Codec::validate: Base58Btc, the base64 codecs, Crockford32 and Base45
\* override it, the others decode
Validate(c, s, mode) ==
    CASE c = "base58btc" -> validate_alphabet(s, BTC_ALPHABET, mode)
      [] c = "crockford32" -> validate_crockford(s, mode)
      [] c = "base45"    -> validate_base45(s, mode)
      [] c = "base64"    -> base64_validate(s, mode, STANDARD_ALPHABET, FALSE)
      [] c = "base64pad" -> base64_validate(s, mode, STANDARD_ALPHABET, TRUE)
      [] c \in {"base2", "base16lower", "base16upper"} -> Decode(c, s, mode, TRUE)

\* detect_multibase_prefix: the name the map holds for the first
\* character, <<>> for None
detect_multibase_prefix(s, map) ==
    IF s = <<>> THEN <<>>
    ELSE IF s[1] \in DOMAIN map THEN map[s[1]] ELSE <<>>

\* the candidate of the multibase fast path without the validation
MultibaseCandidateUnraised(self, trimmed) ==
    LET codec_name == detect_multibase_prefix(trimmed, multibase_map(self))
    IN  IF codec_name = <<>> THEN <<>>
        ELSE <<DetectCandidate(CodecId(self, codec_name), 980)>>

\* the multibase fast path of run_detect: the candidates before the loop
MultibaseCandidate(self, trimmed) ==
    LET codec_name == detect_multibase_prefix(trimmed, multibase_map(self))
        i == registry_get(self, codec_name)
        valid == i # 0 /\ Validate(self.codecs[i].id, Tail(trimmed), "Lenient").ok
    IN  IF codec_name = <<>> THEN <<>>
        ELSE <<DetectCandidate(CodecId(self, codec_name), IF valid THEN 1000 ELSE 980)>>

\* the floor left out
FloorConfidenceNone(score, decoded) == score

\* a score below 0.5 of a codec that decodes the text is raised to 0.5
FloorConfidence(score, decoded) ==
    IF decoded.ok /\ score.confidence < 500
    THEN [score EXCEPT !.confidence = 500]
    ELSE score

\* the index of the candidate of a codec, 0 if there is none
Existing(candidates, codec_name) ==
    IF \E k \in 1..Len(candidates) : candidates[k].codec = codec_name
    THEN CHOOSE k \in 1..Len(candidates) :
             /\ candidates[k].codec = codec_name
             /\ \A j \in 1..(k - 1) : candidates[j].codec # codec_name
    ELSE 0

\* lines 65-73 of run_detect: a candidate above zero replaces a weaker
\* candidate of its codec in place, or is pushed when there is none
Merge(candidates, score) ==
    LET k == Existing(candidates, score.codec)
    IN  IF score.confidence <= 0 THEN candidates
        ELSE IF k = 0 THEN Append(candidates, score)
        ELSE IF score.confidence > candidates[k].confidence
        THEN [candidates EXCEPT ![k] = score]
        ELSE candidates

\* one pass of the loop of run_detect with the codec's score and the
\* result of its Lenient decode, which is not called when a stronger
\* candidate of the codec exists
Pass(candidates, score, decoded) ==
    IF \E k \in 1..Len(candidates) :
           /\ candidates[k].codec = score.codec
           /\ candidates[k].confidence > score.confidence
    THEN Ok(candidates)
    ELSE IF decoded = Panic THEN Panic
    ELSE Ok(Merge(candidates, FloorConfidence(score, decoded)))

\* one pass of the loop for codec c: the candidates after it, or Panic
\* when the codec's detect_score or decode panics (the score and the
\* decode result are each computed once, as the members of one-element
\* sets)
DetectStep(c, trimmed, candidates) ==
    IF DetectPanics(c, trimmed) THEN Panic
    ELSE CHOOSE next \in
             {Pass(candidates, score, decoded) :
                  score \in {detect_score(c, trimmed)},
                  decoded \in {Decode(c, trimmed, "Lenient", TRUE)}} : TRUE

\* the loop of run_detect over registry.list() from codec i on: the merged
\* candidates, or Panic
RECURSIVE DetectLoop(_, _, _, _)
DetectLoop(self, trimmed, i, candidates) ==
    IF i > Len(registry_list(self)) THEN Ok(candidates)
    ELSE LET c == self.codecs[registry_get(self, registry_list(self)[i].name)].id
         IN  CHOOSE merged \in
                 {IF step.ok THEN DetectLoop(self, trimmed, i + 1, step.val) ELSE Panic :
                      step \in {DetectStep(c, trimmed, candidates)}} : TRUE

\* the sort left out
unsorted(candidates) == candidates

\* the place a stable descending sort gives candidate i: behind the
\* candidates above it and the equal ones before it
SortedPlace(candidates, i) ==
    1 + Cardinality({j \in 1..Len(candidates) :
                         \/ candidates[j].confidence > candidates[i].confidence
                         \/ /\ candidates[j].confidence = candidates[i].confidence
                            /\ j < i})

\* candidates.sort_by(|a, b| b.confidence.partial_cmp(&a.confidence)): a
\* stable sort, descending
sort_by_confidence(candidates) ==
    [p \in 1..Len(candidates) |->
        candidates[CHOOSE i \in 1..Len(candidates) : SortedPlace(candidates, i) = p]]

\* Vec::truncate
truncate(candidates, len) == SubSeq(candidates, 1, Min(len, Len(candidates)))

\* a detection that panicked: no DetectResult
DetectPanic == [ok |-> FALSE, merged |-> <<>>, candidates |-> <<>>]

\* run_detect after text.trim(): the merged candidates and the candidates
\* of the DetectResult; the preview slices the first 60 bytes
DetectTrimmed(self, trimmed, n) ==
    CHOOSE result \in
        {IF ~merged.ok THEN DetectPanic
         ELSE IF ByteLen(trimmed) > 60 /\ ~IsCharBoundary(trimmed, 60) THEN DetectPanic
         ELSE [ok |-> TRUE, merged |-> merged.val,
               candidates |-> truncate(sort_by_confidence(merged.val), n)] :
             merged \in {DetectLoop(self, trimmed, 1, MultibaseCandidate(self, trimmed))}} :
        TRUE

\* run_detect on the lossily decoded input
run_detect(self, s, n) ==
    CHOOSE result \in {DetectTrimmed(self, trimmed, n) : trimmed \in {Trim(s)}} : TRUE

(***************************************************************************)
(* Specification SpecDetect: a text is scored by one codec's detect_score, *)
(* or handed to run_detect with a candidate count, over the registry of    *)
(* the codecs whose detection is modelled, in registration order.          *)
(***************************************************************************)
\* longest enumerated text
MaxDetectLen == 3

\* largest candidate count asked for
MaxTopN == 3

\* space, '0', '=', 'f', 'z' and a character above U+00FF
DetectChars == {32, 48, 61, 102, 122, 321}

\* "zJxF12TrwUP45BMd"
MultibaseSample ==
    <<122, 74, 120, 70, 49, 50, 84, 114, 119, 85, 80, 52, 53, 66, 77, 100>>

\* 59 times 'A' and U+00E9, 61 bytes: byte 60 is inside the last character
LongSample == Repeat(65, 59) \o <<233>>

DetectTexts == SeqsUpTo(DetectChars, MaxDetectLen) \cup {MultibaseSample, LongSample}

InDetectCodecs(c) == c.id \in DetectCodecs

DetectRegistered == SelectSeq(REGISTERED, InDetectCodecs)

InitDetect ==
    /\ pc = "ready"
    /\ text \in DetectTexts
    /\ codec = ""
    /\ input = <<>>
    /\ enc = None
    /\ strict = None
    /\ lenient = None
    /\ validated = None
    /\ registered = DetectRegistered
    /\ once = "complete"
    /\ registry = build_registry(DetectRegistered)
    /\ builds = 1
    /\ thread = <<>>
    /\ top_n = 0
    /\ detected = None
    /\ CliIdle

\* codec.detect_score(text) of one registered codec
Score ==
    /\ pc = "ready"
    /\ \E i \in 1..Len(registry.codecs) :
           LET c == registry.codecs[i].id
           IN  /\ codec' = c
               /\ detected' = IF DetectPanics(c, text) THEN DetectPanic
                              ELSE [ok |-> TRUE, merged |-> <<detect_score(c, text)>>,
                                    candidates |-> <<detect_score(c, text)>>]
    /\ pc' = "scored"
    /\ UNCHANGED <<input, enc, text, strict, lenient, validated, top_n, registryVars, cliVars>>

\* run_detect(ctx, text, top_n)
RunDetect ==
    /\ pc = "ready"
    /\ \E n \in 0..MaxTopN :
           /\ top_n' = n
           /\ detected' = run_detect(registry, text, n)
    /\ pc' = "detected"
    /\ UNCHANGED <<codec, input, enc, text, strict, lenient, validated, registryVars, cliVars>>

NextDetect == Score \/ RunDetect

SpecDetect == InitDetect /\ [][NextDetect]_vars

(***************************************************************************)
(* commands/explain.rs.  A suggestion is modelled by a tag naming the      *)
(* push that produced it; the codec name or length a message is formatted  *)
(* with is left out.                                                       *)
(***************************************************************************)
\* str::contains
ContainsStr(s, sub) ==
    \E i \in 0..(Len(s) - Len(sub)) : SubSeq(s, i + 1, i + Len(sub)) = sub

\* str::starts_with
StartsWith(s, prefix) ==
    Len(s) >= Len(prefix) /\ SubSeq(s, 1, Len(prefix)) = prefix

\* &s[start..end] for a range on character boundaries
ByteSlice(s, start, end) ==
    SubSeq(s, Cardinality({i \in 1..Len(s) : ByteLen(SubSeq(s, 1, i)) <= start}) + 1,
              Cardinality({i \in 1..Len(s) : ByteLen(SubSeq(s, 1, i)) <= end}))

\* whether &s[start..end] panics: a reversed range, or an end that is not
\* a character boundary
SlicePanics(s, start, end) ==
    \/ start > end
    \/ end > ByteLen(s)
    \/ start # 0 /\ ~IsCharBoundary(s, start)
    \/ end # 0 /\ ~IsCharBoundary(s, end)

\* get_context: the slice, a newline, marker_pos spaces and '^'
get_context(s, pos, window) ==
    LET start == Max(pos - window, 0)
        end == Min(pos + window + 1, ByteLen(s))
        marker_pos == pos - start
    IN  IF SlicePanics(s, start, end) THEN Panic
        ELSE Ok(ByteSlice(s, start, end) \o <<10>> \o Repeat(32, marker_pos) \o <<94>>)

\* the n of LengthConstraint::MultipleOf(n) in the InvalidLength of a
\* modelled decoder: decode_hex and Base2::decode
expected_multiple(c) ==
    CASE c \in {"base16lower", "base16upper"} -> 2
      [] c = "base2" -> 8

\* suggest_fixes; `c` is the codec that produced the error
suggest_fixes(error, c, codec_name, s) ==
    (IF error.kind = "InvalidCharacter" /\ IsAsciiWhitespace(error.ch)
     THEN <<"LenientWhitespace">> ELSE <<>>)
    \o (IF error.kind = "InvalidCharacter"
           /\ (IsAsciiUpper(error.ch) \/ IsAsciiLower(error.ch))
        THEN <<"LenientCase">> ELSE <<>>)
    \o (IF error.kind = "InvalidCharacter" /\ error.ch = 61
        THEN <<"PaddedVariant">> ELSE <<>>)
    \o (IF error.kind = "InvalidPadding"
        THEN (IF ContainsStr(codec_name, <<112, 97, 100>>)
              THEN <<"IncorrectPadding">> ELSE <<"TryPadVariant">>)
        ELSE <<>>)
    \o (IF error.kind = "InvalidLength"
        THEN (IF expected_multiple(c) = 2 /\ ContainsStr(codec_name, <<49, 54>>)
              THEN <<"HexOddLength">>
              ELSE IF expected_multiple(c) \in {4, 5}
              THEN <<"LengthMismatch">> ELSE <<>>)
        ELSE <<>>)
    \o (IF error.kind = "ChecksumMismatch"
        THEN <<"DataCorrupted", "VerifyCopied">> ELSE <<>>)
    \o (IF StartsWith(s, <<48, 120>>) \/ StartsWith(s, <<48, 88>>)
        THEN <<"RemovePrefix">> ELSE <<>>)

\* an ExplainResult; position -1 and context <<>> stand for None
ExplainResult(valid, error, context, suggestions) ==
    [ok |-> TRUE, kind |-> "ExplainResult", valid |-> valid, error |-> error.kind,
     position |-> error.pos, offending_char |-> error.ch, context |-> context,
     suggestions |-> suggestions]

\* the Err arm of run_explain's match
ExplainFailure(e, c, codec_name, trimmed) ==
    LET context == IF e.kind = "InvalidCharacter"
                   THEN get_context(trimmed, e.pos, 10) ELSE Ok(<<>>)
    IN  IF ~context.ok THEN Panic
        ELSE ExplainResult(FALSE, e, context.val,
                           suggest_fixes(e, c, codec_name, trimmed))

\* run_explain after read_input returned the bytes of `s`
run_explain(self, s, codec_name, mode, overflow_checks) ==
    LET trimmed == Trim(s)
        i == registry_get(self, codec_name)
    IN  IF i = 0 THEN UnsupportedCodec
        ELSE IF ByteLen(trimmed) > 60 /\ ~IsCharBoundary(trimmed, 60) THEN Panic
        ELSE CHOOSE r \in
                 {IF e.kind = "Panic" THEN Panic
                  ELSE IF e.ok THEN ExplainResult(TRUE, None, <<>>, <<>>)
                  ELSE ExplainFailure(e, self.codecs[i].id, codec_name, trimmed) :
                     e \in {Decode(self.codecs[i].id, trimmed, mode, overflow_checks)}} :
                 TRUE

(***************************************************************************)
(* Specification SpecExplain: one run of `mbase explain` on a literal      *)
(* argument, whose bytes read_input returns and from_utf8_lossy reads      *)
(* back as the same text.                                                  *)
(***************************************************************************)
\* longest enumerated argument of --in
MaxExplainLen == 3

\* space, '!', '0', '=', 'A', 'f', 'x' and U+00E9
ExplainChars == {32, 33, 48, 61, 65, 102, 120, 233}

\* "3QJmnj": Base58Check of the empty payload with its last symbol changed
CorruptedSample == <<51, 81, 74, 109, 110, 106>>

\* U+00E9, eight times 'A' and U+00E9: byte 11 is inside the last character
WindowSample == <<233>> \o Repeat(65, 8) \o <<233>>

ExplainTexts ==
    SeqsUpTo(ExplainChars, MaxExplainLen) \cup {CorruptedSample, WindowSample, LongSample}

\* "hex", "base16lower", "base16upper", "base2", "base64", "base64pad",
\* "bech32", "base58check", "nope"
ExplainCodecNames ==
    {<<104, 101, 120>>,
     <<98, 97, 115, 101, 49, 54, 108, 111, 119, 101, 114>>,
     <<98, 97, 115, 101, 49, 54, 117, 112, 112, 101, 114>>,
     <<98, 97, 115, 101, 50>>,
     <<98, 97, 115, 101, 54, 52>>,
     <<98, 97, 115, 101, 54, 52, 112, 97, 100>>,
     <<98, 101, 99, 104, 51, 50>>,
     <<98, 97, 115, 101, 53, 56, 99, 104, 101, 99, 107>>,
     <<110, 111, 112, 101>>}

\* the parsed command line of `mbase explain`: --codec, --in, --mode
ExplainCommands ==
    [codec_name : ExplainCodecNames, text : ExplainTexts, mode : {"Strict", "Lenient"}]

InitExplain ==
    /\ registered = REGISTERED
    /\ once = "complete"
    /\ registry = build_registry(REGISTERED)
    /\ builds = 1
    /\ thread = <<>>
    /\ cli \in ExplainCommands
    /\ outcome = None
    /\ exit = -1
    /\ CodecIdle
    /\ DetectIdle

\* ExplainCommand::execute with the Context of the built registry
Explain ==
    /\ outcome = None
    /\ outcome' = run_explain(registry, cli.text, cli.codec_name, cli.mode, TRUE)
    /\ UNCHANGED <<cli, exit, registryVars, codecVars, detectVars>>

NextExplain == Explain

SpecExplain == InitExplain /\ [][NextExplain]_vars

(***************************************************************************)
(* Specification SpecOverflow: a caller hands a short text over the        *)
(* lowest and highest digits of the base-85 alphabets, or a 20-symbol      *)
(* RFC 1924 text, to a base-85 decoder, in Strict and then Lenient mode,   *)
(* in a build with or without overflow checks.                             *)
(***************************************************************************)
Base85Codecs == {"ascii85", "z85", "base85chunked", "base85rfc1924"}

\* longest enumerated text
MaxGroupLen == 5

\* '!' and 'u' (Ascii85 digits 0 and 84), '0' and '#' (Z85 digits 0 and
\* 84), '~' (RFC 1924 digit 84)
GroupChars == {33, 35, 48, 117, 126}

\* twenty times '~', twenty times '0', and '1' before nineteen times '0'
Rfc1924Samples == {Repeat(126, 20), Repeat(48, 20), <<49>> \o Repeat(48, 19)}

GroupTexts == SeqsUpTo(GroupChars, MaxGroupLen) \cup Rfc1924Samples

InitOverflow ==
    /\ pc = "ready"
    /\ codec \in Base85Codecs
    /\ text \in GroupTexts
    /\ input = <<>>
    /\ enc = None
    /\ strict = None
    /\ lenient = None
    /\ validated = None
    /\ RegistryIdle
    /\ CliIdle
    /\ DetectIdle

NextOverflow == DecodeStrict \/ DecodeLenient

SpecOverflow == InitOverflow /\ [][NextOverflow]_vars

(***************************************************************************)
(* Specification SpecValidate: a caller either encodes a byte sequence     *)
(* and passes the text on, or brings a short text of its own; the text is  *)
(* decoded in both modes and then checked by run_verify                    *)
(* (commands/verify.rs) in one of them.                                    *)
(***************************************************************************)
\* the codecs with a validate of their own, and three that decode
ValidateCodecs ==
    {"base58btc", "base64", "base64pad", "crockford32", "base45",
     "base2", "base16lower", "base16upper"}

\* longest text handed to run_verify directly
MaxVerifyLen == 3

\* space, '-', '0', ':' (the last base45 symbol), 'A', 'a'
VerifyChars == {32, 45, 48, 58, 65, 97}

VerifyTexts == SeqsUpTo(VerifyChars, MaxVerifyLen)

InitValidate ==
    /\ codec \in ValidateCodecs
    /\ \/ pc = "start" /\ input \in Inputs /\ text = <<>>
       \/ pc = "ready" /\ input = <<>> /\ text \in VerifyTexts
    /\ enc = None
    /\ strict = None
    /\ lenient = None
    /\ validated = None
    /\ RegistryIdle
    /\ CliIdle
    /\ DetectIdle

\* run_verify's codec.validate(&text, mode)
Verify ==
    /\ pc = "both"
    /\ \E mode \in {"Strict", "Lenient"} :
           validated' = [mode |-> mode, res |-> Validate(codec, text, mode)]
    /\ pc' = "verified"
    /\ UNCHANGED <<codec, input, enc, text, strict, lenient>>
    /\ UNCHANGED systemVars

NextValidate == EncodeInput \/ Submit \/ DecodeStrict \/ DecodeLenient \/ Verify

SpecValidate == InitValidate /\ [][NextValidate]_vars

(***************************************************************************)
(* Specification SpecStream: the round trip of Spec for the codecs that    *)
(* carry state from one group to the next (Base91's bit queue, Baudot's    *)
(* shift state, Bubble Babble's checksum).                                 *)
(***************************************************************************)
StreamCodecs == {"base91", "baudot", "bubblebabble"}

\* longest input of a stream codec
MaxStreamLen == 3

\* 0, space, '1', 'a', U+00DF as a Latin-1 byte, 255
StreamBytes == {0, 32, 49, 97, 223, 255}

StreamInputs == SeqsUpTo(StreamBytes, MaxStreamLen)

InitStream ==
    /\ pc = "start"
    /\ codec \in StreamCodecs
    /\ input \in StreamInputs
    /\ enc = None
    /\ text = <<>>
    /\ strict = None
    /\ lenient = None
    /\ validated = None
    /\ RegistryIdle
    /\ CliIdle
    /\ DetectIdle

NextStream == EncodeInput \/ Submit \/ DecodeStrict

SpecStream == InitStream /\ [][NextStream]_vars

(***************************************************************************)
(* Specification SpecPunycode: a caller hands Punycode::encode a text,     *)
(* given as runs of characters so that it can be longer than 2^32          *)
(* characters, or hands Punycode::decode a short text, in Strict and then  *)
(* in Lenient mode.                                                        *)
(***************************************************************************)
\* most runs of an input
MaxRuns == 3

\* the lengths of a run of 'a': one, 4096 and 2^32 - 1
PunycodeCounts == {<<1>>, Big(4096), U32_MAX}

\* runs of 'a', and one or two of U+00E9 or U+10FFFF
PunycodeRuns ==
    {CharRun(97, k) : k \in PunycodeCounts}
        \cup {CharRun(c, Big(j)) : c \in {233, 1114111}, j \in 1..2}

PunycodeInputs == SeqsUpTo(PunycodeRuns, MaxRuns)

\* most digits after the delimiter of a text
MaxDigits == 8

\* the delimiter followed by digits '9' (35) and 'a' (0), and the short
\* texts of space, '-', '9', 'a' and U+00E9
PunycodeTexts ==
    {<<45>> \o t : t \in SeqsUpTo({57, 97}, MaxDigits)}
        \cup SeqsUpTo({32, 45, 57, 97, 233}, MaxLen)

InitPunycode ==
    /\ codec = "punycode"
    /\ \/ pc = "start" /\ input \in PunycodeInputs /\ text = <<>>
       \/ pc = "ready" /\ input = <<>> /\ text \in PunycodeTexts
    /\ enc = None
    /\ strict = None
    /\ lenient = None
    /\ validated = None
    /\ RegistryIdle
    /\ CliIdle
    /\ DetectIdle

\* Punycode.encode(&input), in a build with or without overflow checks
EncodeRuns ==
    /\ pc = "start"
    /\ \E overflow_checks \in BOOLEAN :
           enc' = punycode_encode(input, overflow_checks).res
    /\ pc' = "encoded"
    /\ UNCHANGED <<codec, input, text, strict, lenient, validated>>
    /\ UNCHANGED systemVars

NextPunycode == EncodeRuns \/ DecodeStrict \/ DecodeLenient

SpecPunycode == InitPunycode /\ [][NextPunycode]_vars

(***************************************************************************)
(* C1 - round-trip fidelity: for a general binary codec and any byte       *)
(* sequence, Strict-decoding the encoded text returns exactly the input.   *)
(***************************************************************************)
RoundTripFidelity ==
    (pc = "done" /\ codec \in RoundTripCodecs) => strict = Ok(input)

(***************************************************************************)
(* C2 - mode monotonicity: a text that Strict decodes to bytes b is        *)
(* decoded by Lenient to the same bytes b.                                 *)
(***************************************************************************)
ModeMonotonicity ==
    (pc = "both" /\ strict.ok) => lenient = strict

OneSymbolReplaced ==
    /\ enc.ok
    /\ Len(text) = Len(enc.val)
    /\ Cardinality({i \in 1..Len(text) : text[i] # enc.val[i]}) = 1

\* the character that replaced the symbol
Replacement ==
    LET i == CHOOSE k \in 1..Len(text) : text[k] # enc.val[k] IN text[i]

ChecksumRejection ==
    (pc \in {"done", "both"} /\ codec \in ChecksumCodecs /\ OneSymbolReplaced) =>
        /\ strict = ChecksumMismatch
        /\ (pc = "both" => lenient = ChecksumMismatch)

(***************************************************************************)
(* C4, amended - when the replacing character is a different symbol of the *)
(* codec's own alphabet, decode fails with ChecksumMismatch in both modes. *)
(***************************************************************************)
ChecksumRejectionInAlphabet ==
    (/\ pc \in {"done", "both"}
     /\ codec \in ChecksumCodecs
     /\ OneSymbolReplaced
     /\ Replacement \in Symbols(Alphabet(codec))) =>
        /\ strict = ChecksumMismatch
        /\ (pc = "both" => lenient = ChecksumMismatch)

\* a Base58Check symbol was replaced by another alphabet symbol and both
\* decodes have reported the checksum
ChecksumRejectionWitness ==
    /\ pc = "both"
    /\ codec = "base58check"
    /\ input = <<255>>
    /\ OneSymbolReplaced
    /\ Replacement \in Symbols(BTC_ALPHABET)
    /\ strict = ChecksumMismatch
    /\ lenient = ChecksumMismatch

(***************************************************************************)
(* C5 - Bech32 and Bech32m are told apart by reconstruction: a decoder     *)
(* accepts a text only if re-encoding the decoded payload under its own    *)
(* variant gives the case-folded input, and it rejects the text produced   *)
(* by the other variant's encoder with ChecksumMismatch.                   *)
(***************************************************************************)
Bech32Reconstruction ==
    (pc \in {"done", "both"} /\ codec \in Bech32Codecs) =>
        LET other == IF codec = "bech32" THEN "bech32m" ELSE "bech32"
            crossed == text = Encode(other, input).val
        IN  /\ strict.ok =>
                ToLower(Encode(codec, strict.val).val) = ToLower(text)
            /\ crossed => strict = ChecksumMismatch
            /\ (pc = "both" /\ lenient.ok) =>
                ToLower(Encode(codec, lenient.val).val)
                    = ToLower(clean_for_mode(text, "Lenient"))
            /\ (pc = "both" /\ crossed) => lenient = ChecksumMismatch

\* the Bech32 encoding of a payload has been refused by the Bech32m decoder
Bech32ReconstructionWitness ==
    /\ pc = "done"
    /\ codec = "bech32m"
    /\ input = <<255>>
    /\ text = Encode("bech32", input).val
    /\ strict = ChecksumMismatch

(***************************************************************************)
(* C6 - invalid characters: for a codec with a defined alphabet, when the  *)
(* mode-normalized text holds a symbol outside the alphabet, decode fails  *)
(* with InvalidCharacter naming the first such symbol and its index in the *)
(* normalized text.                                                        *)
(***************************************************************************)
\* the codecs of SpecText whose meta() alphabet is exactly what they accept
AlphabetCodecs ==
    {"base16lower", "base16upper", "base2", "base58btc", "base58flickr",
     "base58ripple", "base62", "base64", "base64url"}

InvalidCharacterReported ==
    (pc \in {"done", "both"} /\ codec \in AlphabetCodecs) =>
        LET good == Symbols(Alphabet(codec))
            normalized == clean_for_mode(text, "Lenient")
            bad == FirstBad(text, good)
            bad_lenient == FirstBad(normalized, good)
        IN  /\ bad # 0 => strict = InvalidCharacter(text[bad], bad - 1)
            /\ (pc = "both" /\ bad_lenient # 0) =>
                   lenient = InvalidCharacter(normalized[bad_lenient], bad_lenient - 1)

(***************************************************************************)
(* C7 - totality of encode: encode fails only for a fixed-domain codec     *)
(* given input outside its domain, and then with InvalidInput or           *)
(* InvalidLength; every other encode call succeeds, the empty input        *)
(* included.                                                               *)
(***************************************************************************)
\* the codecs of SpecEncode with a length-constrained domain
FixedDomainCodecs == {"z85"}

\* Z85 takes a multiple of four bytes
InDomain == codec = "z85" => Len(input) % 4 = 0

EncodeTotality ==
    pc = "encoded" =>
        IF codec \in FixedDomainCodecs /\ ~InDomain
        THEN enc.kind \in {"InvalidInput", "InvalidLength"}
        ELSE enc.ok

(***************************************************************************)
(* C8 - Strict accepts only the canonical form: a text that differs from a *)
(* canonical encoding only by interspersed whitespace, or only by letter   *)
(* case for a codec of case class Lower or Upper, is rejected by Strict    *)
(* decode and accepted by Lenient decode.                                  *)
(***************************************************************************)
\* text is enc.val with whitespace interspersed
WhitespaceVariant ==
    /\ enc.ok
    /\ text # enc.val
    /\ SelectSeq(text, NotAsciiWhitespace) = enc.val

\* text is enc.val with some letters in the other case
CaseVariant ==
    /\ enc.ok
    /\ text # enc.val
    /\ Len(text) = Len(enc.val)
    /\ \A i \in 1..Len(text) : ToAsciiLower(text[i]) = ToAsciiLower(enc.val[i])

StrictCanonicalOnly ==
    (/\ pc = "both"
     /\ codec \in VariantCodecs
     /\ WhitespaceVariant \/ (CaseVariant /\ codec \in CaseClassCodecs)) =>
        /\ ~strict.ok
        /\ lenient.ok

(***************************************************************************)
(* C9 - padding contradictions: decode fails with InvalidPadding for a     *)
(* text carrying '=' padding given to a no-padding codec, and in Strict    *)
(* mode for an unpadded text whose length requires padding given to a      *)
(* padding-required codec.                                                 *)
(***************************************************************************)
\* the text is symbols of the codec's alphabet followed by n '=' signs
PaddedText(n) ==
    /\ TrailingCount(text, 61) = n
    /\ FirstBad(TrimPadding(text), Symbols(Alphabet(codec))) = 0

PaddingContradiction ==
    pc \in {"done", "both"} =>
        /\ (codec \in NoPaddingCodecs /\ \E n \in 1..2 : PaddedText(n)) =>
               /\ strict = InvalidPadding
               /\ (pc = "both" => lenient = InvalidPadding)
        /\ (codec \in PaddingCodecs /\ PaddedText(0) /\ Len(text) % 4 # 0) =>
               strict = InvalidPadding

(***************************************************************************)
(* C10 - no partial success: when a symbol of the text cannot be           *)
(* represented in the output - a character above U+00FF given to ROT13, a  *)
(* dangling single symbol at the end of an Ascii85 text - decode returns   *)
(* an error instead of omitting or truncating it.                          *)
(***************************************************************************)
\* a character of the text does not fit a byte
AboveLatin1 == \E i \in 1..Len(text) : text[i] > 255

\* Ascii85 symbols only, the last group holding a single symbol
DanglingSymbol ==
    /\ \A i \in 1..Len(text) : text[i] \in 33..117
    /\ Len(text) % 5 = 1

NoPartialSuccess ==
    (/\ pc \in {"done", "both"}
     /\ \/ codec = "rot13" /\ AboveLatin1
        \/ codec = "ascii85" /\ DanglingSymbol) =>
        /\ ~strict.ok
        /\ (pc = "both" => ~lenient.ok)

(***************************************************************************)
(* C11 - name resolution: in the constructed registry every name and alias *)
(* a codec declares is declared by that codec alone, and Registry::get of  *)
(* it returns that codec.                                                  *)
(***************************************************************************)
NameResolution ==
    once = "complete" =>
        \A i \in 1..Len(registry.codecs) :
            \A x \in Range(KeysOf(registry.codecs[i])) :
                /\ \A j \in 1..Len(registry.codecs) :
                       x \in Range(KeysOf(registry.codecs[j])) => j = i
                /\ registry_get(registry, x) = i

(***************************************************************************)
(* C12 - multibase uniqueness: with a prefix character declared by two     *)
(* codecs the construction aborts and no registry exists; in a constructed *)
(* registry no two codecs share a prefix and multibase_map() sends every   *)
(* declared prefix to the canonical name of the codec declaring it.        *)
(***************************************************************************)
MultibaseUniqueness ==
    /\ DuplicateMultibase(registered) =>
           /\ once # "complete"
           /\ registry = None
           /\ \A t \in Threads : thread[t].pc # "ready"
    /\ once = "complete" =>
           /\ ~DuplicateMultibase(registry.codecs)
           /\ \A i \in 1..Len(registry.codecs) :
                  registry.codecs[i].multibase_code # -1 =>
                      multibase_map(registry)[registry.codecs[i].multibase_code]
                          = registry.codecs[i].name

\* every thread has run into the panic of a duplicated prefix
MultibaseUniquenessWitness ==
    /\ DuplicateMultibase(registered)
    /\ \A t \in Threads : thread[t].pc = "panicked"
    /\ registry = None

(***************************************************************************)
(* C13 - one-time construction: under every interleaving of first calls to *)
(* Registry::global() the registry is built at most once, every caller     *)
(* that returned holds the same instance, and the stored registry stays    *)
(* what build_registry made of the registered codecs.                      *)
(***************************************************************************)
ConstructedOnce ==
    /\ builds <= 1
    /\ \A t \in Threads : thread[t].pc = "ready" => (thread[t].ref = 1 /\ builds = 1)
    /\ once = "complete" => registry = build_registry(registered)
    /\ once # "complete" => registry = None

\* all threads raced, one built the registry, and all hold it after lookups
ConstructedOnceWitness ==
    /\ builds = 1
    /\ \A t \in Threads : thread[t].pc = "ready" /\ thread[t].ref = 1
    /\ \E t \in Threads : thread[t].found > 0

(***************************************************************************)
(* C19 - exit codes: the exit code of a failed run belongs to one error    *)
(* kind only, the kind of the error the run ended with: no two of          *)
(* InvalidInput, InvalidCharacter, InvalidLength, InvalidPadding,          *)
(* ChecksumMismatch, UnsupportedCodec and IoError share a code.            *)
(***************************************************************************)
DistinctExitCodes ==
    (exit # -1 /\ ~outcome.ok) =>
        \A kind \in ErrorKinds : exit_code(kind) = exit => kind = outcome.kind

(***************************************************************************)
(* C20 - Base45 length: decode of a text whose length is 1 modulo 3 fails  *)
(* with InvalidInput, in Strict and in Lenient mode.                       *)
(***************************************************************************)
Base45LengthRejected ==
    (pc \in {"done", "both"} /\ codec = "base45" /\ Len(text) % 3 = 1) =>
        /\ strict = InvalidInput
        /\ (pc = "both" => lenient = InvalidInput)

(***************************************************************************)
(* C14 - detect_score is total: for every codec and every text it returns  *)
(* a candidate, without panicking, and the confidence it returns for the   *)
(* empty text is 0.                                                        *)
(***************************************************************************)
DetectScoreTotal ==
    pc = "scored" =>
        /\ detected.ok
        /\ text = <<>> => detected.candidates[1].confidence = 0

(***************************************************************************)
(* C15 - detection never aborts: run_detect returns a result for every     *)
(* input text; no codec's scoring or trial decode makes the call fail.     *)
(***************************************************************************)
DetectNeverAborts ==
    pc = "detected" => detected.ok

(***************************************************************************)
(* C16 - decode floor: every registered codec whose Lenient decode of the  *)
(* trimmed input succeeds has a candidate of confidence at least 0.5 among *)
(* the merged candidates of run_detect.                                    *)
(***************************************************************************)
DecodableFloored ==
    (pc = "detected" /\ detected.ok) =>
        \A i \in 1..Len(registry.codecs) :
            Decode(registry.codecs[i].id, Trim(text), "Lenient", TRUE).ok =>
                \E k \in 1..Len(detected.merged) :
                    /\ detected.merged[k].codec = registry.codecs[i].id
                    /\ detected.merged[k].confidence >= 500

\* rot13 scored the text below 0.5, decodes it, and is listed with 0.5
DecodableFlooredWitness ==
    /\ pc = "detected"
    /\ detected.ok
    /\ detect_score("rot13", Trim(text)).confidence < 500
    /\ \E k \in 1..Len(detected.merged) :
           detected.merged[k] = DetectCandidate("rot13", 500)

(***************************************************************************)
(* C17 - multibase fast path: when the trimmed input starts with a         *)
(* registered multibase prefix, the merged candidates hold the prefix's    *)
(* codec with confidence at least 0.95, and with 1.0 when the remainder    *)
(* passes the codec's Lenient validation; for "zJxF12TrwUP45BMd" the top   *)
(* candidate is base58btc with confidence at least 0.95.                   *)
(***************************************************************************)
MultibaseFastPath ==
    (pc = "detected" /\ detected.ok) =>
        LET trimmed == Trim(text)
            codec_name == detect_multibase_prefix(trimmed, multibase_map(registry))
        IN  /\ codec_name # <<>> =>
                   \E k \in 1..Len(detected.merged) :
                       /\ detected.merged[k].codec = CodecId(registry, codec_name)
                       /\ detected.merged[k].confidence >= MULTIBASE_MATCH
                       /\ Validate(CodecId(registry, codec_name), Tail(trimmed), "Lenient").ok
                              => detected.merged[k].confidence = 1000
            /\ (text = MultibaseSample /\ top_n >= 1) =>
                   /\ detected.candidates[1].codec = "base58btc"
                   /\ detected.candidates[1].confidence >= MULTIBASE_MATCH

\* the sample is detected as base58btc with the maximum confidence
MultibaseFastPathWitness ==
    /\ pc = "detected"
    /\ text = MultibaseSample
    /\ top_n >= 1
    /\ detected.ok
    /\ detected.candidates[1] = DetectCandidate("base58btc", 1000)

(***************************************************************************)
(* C18 - ranked output: run_detect returns the top_n highest-confidence    *)
(* merged candidates (all of them when there are fewer), in order of       *)
(* non-increasing confidence, candidates of equal confidence in codec      *)
(* registration order.                                                     *)
(***************************************************************************)
RankedOutput ==
    (pc = "detected" /\ detected.ok) =>
        LET cs == detected.candidates
            merged == detected.merged
            Place(c) == CHOOSE i \in 1..Len(registry.codecs) : registry.codecs[i].id = c.codec
            Returned(c) == \E i \in 1..Len(cs) : cs[i] = c
        IN  /\ Len(cs) = Min(top_n, Len(merged))
            /\ \A i \in 1..Len(cs) : \E k \in 1..Len(merged) : merged[k] = cs[i]
            /\ \A i, j \in 1..Len(cs) : i < j =>
                   /\ cs[i].codec # cs[j].codec
                   /\ cs[i].confidence >= cs[j].confidence
                   /\ cs[i].confidence = cs[j].confidence => Place(cs[i]) < Place(cs[j])
            /\ \A k \in 1..Len(merged) : ~Returned(merged[k]) =>
                   \A i \in 1..Len(cs) :
                       /\ cs[i].confidence >= merged[k].confidence
                       /\ cs[i].confidence = merged[k].confidence
                              => Place(cs[i]) < Place(merged[k])

\* two of four or more merged candidates are returned, with a tie between
\* a returned candidate and one cut off
RankedOutputWitness ==
    /\ pc = "detected"
    /\ detected.ok
    /\ top_n = 2
    /\ Len(detected.merged) >= 4
    /\ Len(detected.candidates) = 2
    /\ \E k \in 1..Len(detected.merged) :
           /\ detected.merged[k] # detected.candidates[1]
           /\ detected.merged[k] # detected.candidates[2]
           /\ detected.merged[k].confidence = detected.candidates[2].confidence

(***************************************************************************)
(* C21 - odd-length hex: when run_explain is given an odd number of hex    *)
(* digits for a Base16 codec, named by its canonical name or by an alias,  *)
(* the result is invalid and the suggestions include the missing-character *)
(* hint.                                                                   *)
(***************************************************************************)
\* the codec the command line's --codec resolves to, "" if none
ExplainedCodec ==
    LET i == registry_get(registry, cli.codec_name)
    IN  IF i = 0 THEN "" ELSE registry.codecs[i].id

OddHexHint ==
    (/\ outcome # None
     /\ ExplainedCodec \in {"base16lower", "base16upper"}
     /\ Len(Trim(cli.text)) % 2 = 1
     /\ \A i \in 1..Len(Trim(cli.text)) : Trim(cli.text)[i] \in HexDigits) =>
        /\ outcome.ok
        /\ ~outcome.valid
        /\ \E i \in 1..Len(outcome.suggestions) : outcome.suggestions[i] = "HexOddLength"

(***************************************************************************)
(* C22 - checksum failures: when the decode failure is ChecksumMismatch    *)
(* the suggestions of run_explain are the two data-corruption ones and     *)
(* nothing else: no mode change, padded variant or prefix removal.         *)
(***************************************************************************)
ChecksumSuggestsCorruptionOnly ==
    (outcome # None /\ outcome.ok /\ outcome.error = "ChecksumMismatch") =>
        outcome.suggestions = <<"DataCorrupted", "VerifyCopied">>

(***************************************************************************)
(* C23 - error context: for every decode failure of kind InvalidCharacter  *)
(* run_explain returns, without panicking, a context whose first line is   *)
(* a window of the input containing the offending character and whose      *)
(* marker line puts '^' in the column of that character.                   *)
(***************************************************************************)
\* the context is a slice of the input, a newline, k spaces and '^', and
\* the slice has the offending character in column k
MarksOffender(context, s, ch) ==
    \E k \in 0..(Len(context) - 3) :
        LET w == SubSeq(context, 1, Len(context) - k - 2)
        IN  /\ context = w \o <<10>> \o Repeat(32, k) \o <<94>>
            /\ ContainsStr(s, w)
            /\ w[k + 1] = ch

ContextMarksOffender ==
    (/\ outcome # None
     /\ ExplainedCodec # ""
     /\ Decode(ExplainedCodec, Trim(cli.text), cli.mode, TRUE).kind = "InvalidCharacter") =>
        /\ outcome.ok
        /\ MarksOffender(outcome.context, Trim(cli.text), outcome.offending_char)

(***************************************************************************)
(* C24 - decode never panics: for every codec, every text and both modes   *)
(* decode returns Ok or Err; no table index is out of range, no slice      *)
(* range invalid or reversed, no arithmetic overflow traps.                *)
(***************************************************************************)
DecodeReturns ==
    /\ pc \in {"done", "both"} => strict.kind # "Panic"
    /\ pc = "both" => lenient.kind # "Panic"

(***************************************************************************)
(* C26 - base-85 accumulators: in the Ascii85, Z85, Base85Chunked and      *)
(* RFC 1924 decoders a 5-symbol group whose value exceeds 2^32 - 1, or a   *)
(* 20-symbol RFC 1924 text whose value exceeds 2^128 - 1, is rejected      *)
(* with an error; the value neither wraps into bytes nor traps.            *)
(***************************************************************************)
\* the digits of the decoder's alphabet
Base85Alphabet(c) ==
    CASE c = "ascii85" -> [i \in 1..85 |-> 32 + i]
      [] c = "z85" -> Z85_ALPHABET
      [] c \in {"base85chunked", "base85rfc1924"} -> RFC1924_ALPHABET

\* the text is one full group of the codec's digits whose value does not
\* fit the accumulator
GroupOverflows ==
    LET digits == Positions(text, Base85Alphabet(codec))
        width == IF codec = "base85rfc1924" THEN RFC1924_BYTES_LEN ELSE 4
    IN  /\ Len(text) = (IF codec = "base85rfc1924" THEN RFC1924_ENCODED_LEN ELSE 5)
        /\ \A i \in 1..Len(text) : digits[i] >= 0
        /\ Len(Base85Value(digits)) > width

OverflowRejected ==
    (pc \in {"done", "both"} /\ codec \in Base85Codecs /\ GroupOverflows) =>
        ~strict.ok /\ strict.kind # "Panic"

(***************************************************************************)
(* C25 - validate and decode agree                                         *)
(***************************************************************************)
\* the outcome of decode in the mode run_verify was called with
DecodedInMode == IF validated.mode = "Strict" THEN strict ELSE lenient

\* C25: for every codec, text and mode, validate succeeds exactly when
\* decode succeeds; in particular the Strict validation of an encoder's
\* output succeeds.
ValidateIffDecode ==
    pc = "verified" =>
        /\ validated.res.ok <=> DecodedInMode.ok
        /\ (enc # None /\ validated.mode = "Strict") => validated.res.ok

(***************************************************************************)
(* C27 - Base91's width rule                                               *)
(***************************************************************************)
\* the widths Base91::encode takes from the queue, group by group
RECURSIVE Base91EncodeWidths(_, _, _, _)
Base91EncodeWidths(bytes, i, queue, nbits) ==
    IF i > Len(bytes) THEN <<>>
    ELSE LET q == queue + bytes[i] * 2^nbits
             n == nbits + 8
             width == IF q % 8192 > 88 THEN 13 ELSE 14
         IN  IF n > 13
             THEN <<width>> \o Base91EncodeWidths(bytes, i + 1, q \div 2^width, n - width)
             ELSE Base91EncodeWidths(bytes, i + 1, q, n)

\* the widths Base91::decode takes for the pairs of symbols of s (the
\* encoder's full groups first, then its last partial group if that took
\* two symbols)
Base91DecodeWidths(s) ==
    [k \in 1..(Len(s) \div 2) |->
        Base91Width((IndexOf(BASE91_ALPHABET, s[2 * k - 1]) - 1)
                    + 91 * (IndexOf(BASE91_ALPHABET, s[2 * k]) - 1))]

\* C27: Base91's decoder takes from every 2-symbol group the width the
\* encoder gave it (13 bits when the low 13 bits exceed 88, else 14), and
\* decode(encode(b), Strict) = b for every b, partial last group included.
Base91RoundTrip ==
    (pc = "done" /\ codec = "base91") =>
        /\ LET widths == Base91EncodeWidths(input, 1, 0, 0)
           IN  SubSeq(Base91DecodeWidths(text), 1, Len(widths)) = widths
        /\ strict = Ok(input)

\* a round trip with a 14-bit group followed by a partial group
Base91RoundTripWitness ==
    /\ pc = "done"
    /\ codec = "base91"
    /\ Len(input) = 3
    /\ Base91EncodeWidths(input, 1, 0, 0) = <<14>>
    /\ Len(text) = 4
    /\ strict = Ok(input)

(***************************************************************************)
(* C28 - Baudot's shift state                                              *)
(***************************************************************************)
\* str::to_uppercase of the text whose characters are the bytes of s:
\* U+00DF becomes "SS"
RECURSIVE UpperCased(_)
UpperCased(s) ==
    IF s = <<>> THEN <<>>
    ELSE (IF s[1] = 223 THEN <<83, 83>> ELSE <<UppercaseFirst(s[1])>>)
         \o UpperCased(Tail(s))

\* C28: for every input Baudot's encoder accepts, decode(encode(s), Strict)
\* is the upper-cased s (the decoder, replaying the shift codes from the
\* LETTERS state, reads every data code in the table the encoder took it
\* from).
BaudotRoundTrip ==
    (pc = "done" /\ codec = "baudot") => strict = Ok(UpperCased(input))

(***************************************************************************)
(* C29 - Bubble Babble's rolling checksum                                  *)
(***************************************************************************)
\* 1, then (5*c + 7*b1 + b2) mod 36 after each full tuple: the checksum
\* before each of the n tuples of bytes
RECURSIVE RollingChecksums(_, _, _)
RollingChecksums(bytes, n, c) ==
    IF n = 0 THEN <<>>
    ELSE <<c>> \o (IF Len(bytes) >= 2
                   THEN RollingChecksums(SubSeq(bytes, 3, Len(bytes)), n - 1,
                            (5 * c + 7 * bytes[1] + bytes[2]) % 36)
                   ELSE <<>>)

\* C29: the checksum Bubble Babble's encoder uses is 1 before the first
\* tuple and (5*c + 7*b1 + b2) mod 36 after a full tuple (b1, b2); the
\* decoder's replayed checksum equals it before every tuple, and
\* decode(encode(b), Strict) = b.
BubbleChecksumReplayed ==
    (pc = "done" /\ codec = "bubblebabble") =>
        LET encoded == BubbleEncodeLoop(input, 1, 1, <<120>>, <<>>)
            decoded == BubbleDecode(text, "Strict")
        IN  /\ encoded.checksums = RollingChecksums(input, (Len(input) + 1) \div 2, 1)
            /\ decoded.checksums = encoded.checksums
            /\ strict = Ok(input)

\* a round trip of three bytes: a full tuple that moves the checksum off
\* its seed, then a partial tuple decoded with the new checksum
BubbleChecksumReplayedWitness ==
    /\ pc = "done"
    /\ codec = "bubblebabble"
    /\ Len(input) = 3
    /\ BubbleDecode(text, "Strict").checksums = <<1, next_checksum(1, input[1], input[2])>>
    /\ next_checksum(1, input[1], input[2]) # 1
    /\ strict = Ok(input)

(***************************************************************************)
(* C30 - Punycode's arithmetic                                             *)
(***************************************************************************)
\* C30: whenever an addition or a multiplication of Punycode's encode or
\* decode on the delta, weight, index or code-point state leaves the u32
\* range, the call fails with an error.
PunycodeOverflowFails ==
    /\ (pc = "encoded" /\ punycode_encode(input, TRUE).exceeded) =>
           enc = InvalidInput
    /\ (pc \in {"done", "both"} /\ PunycodeDecode(text, "Strict").exceeded) =>
           strict = InvalidInput
    /\ (pc = "both" /\ PunycodeDecode(text, "Lenient").exceeded) =>
           lenient = InvalidInput

====
